---- MODULE Spec2Model ----
(***************************************************************************)
(* A model of the agentic control loop of the XL coding agent: the loop    *)
(* detector, the approval manager, the tool registry's dispatch pipeline,  *)
(* the context manager with its compactor, the LLM client's retry loop,    *)
(* and the agent's turn loop.                                              *)
(* Strings are sequences of one-character                                  *)
(* strings, so that joins, prefix tests and pattern tests are computed     *)
(* the way the code computes them.                                         *)
(***************************************************************************)
EXTENDS Integers, Sequences, FiniteSets, TLC

\* Every record constructor below lists its fields in the order in which
\* TLC normalises field names, so that a record value never has to be
\* reordered while several workers read it.

VARIABLES
  history,     \* LoopDetector.history: the retained action signatures
  recorded,    \* every signature passed to history.push since construction / clear()
  ret,         \* what the most recent LoopDetector call returned
  apPolicy,    \* ApprovalManager.approvalPolicy
  apContext,   \* the ApprovalContext of the most recent checkApproval call (NoContext when
               \* the most recent invoke made none)
  apDecision,  \* what that call returned
  rgCall,      \* the ToolRegistry.invoke call being made: its arguments and environment
  rgOutcome,   \* <<>> while that call has not ended, else <<what it did>>
  agPc,        \* where Agent.run is: idle, loop (head of agenticLoop), request, tools, ending,
               \* done, thrown
  maxTurns,    \* Config.maxTurns
  turn,        \* agenticLoop's turn
  turnCount,   \* Session.turnCount
  messages,    \* ContextManager.messages
  latestUsage, \* ContextManager.latestUsage
  totalUsage,  \* ContextManager.totalUsage
  events,      \* the events the session's runs have yielded
  toolCalls,   \* agenticLoop's toolCalls of the current iteration
  toolResults, \* agenticLoop's toolResults of the current iteration
  usage,       \* agenticLoop's usage of the current iteration
  responses,   \* the model responses received since the session started
  compactions, \* the ChatCompactor.compress calls made since the session started
  cmOps,       \* the last two ContextManager methods called directly on the history
  cmRet,       \* what the most recent pruneToolOutputs call returned
  cmResumed,   \* what the most recent /resume command did: none (no such command yet),
               \* restored, thrown
  autoplan,    \* the autoplan setting of the configuration the session was started with
  planning,    \* what the planning requests of Agent.run returned, one entry per request
  subagent,    \* the SubagentTool.execute call in progress: its position, clock and locals
  clRequest,   \* the chatCompletion call made directly on the client: the provider, the
               \* stream flag and how each attempt goes
  clStream,    \* <<>> while that call has not returned, else <<the events it yielded>>
  files,       \* the file system under the working directory: what each path holds
  fsOp,        \* <<>> before a file tool's execute is called directly, else <<the call, the
               \* file system before it and its result>>
  allowedTools \* Config.allowedTools of the registry's configuration: <<>> for null, else
               \* <<the list of names>>

loopVars == <<history, recorded, ret>>

apVars == <<apPolicy, apContext, apDecision>>

rgVars == <<rgCall, rgOutcome, allowedTools>>

cmVars == <<cmOps, cmRet, cmResumed>>

clVars == <<clRequest, clStream>>

fsVars == <<files, fsOp>>

plVars == <<autoplan, planning>>

agVars == <<agPc, maxTurns, turn, turnCount, messages, latestUsage, totalUsage, events,
            toolCalls, toolResults, usage, responses, compactions, cmOps, cmRet, cmResumed,
            autoplan, planning, subagent>>

vars == <<history, recorded, ret, apPolicy, apContext, apDecision, rgCall, rgOutcome,
          agPc, maxTurns, turn, turnCount, messages, latestUsage, totalUsage, events,
          toolCalls, toolResults, usage, responses, compactions, cmOps, cmRet, cmResumed,
          autoplan, planning, subagent, clRequest, clStream, files, fsOp, allowedTools>>

(***************************************************************************)
(* Strings                                                                 *)
(***************************************************************************)

\* Array.prototype.join: the elements with sep between neighbours.
RECURSIVE Join(_, _)
Join(strs, sep) ==
  IF Len(strs) = 0 THEN <<>>
  ELSE IF Len(strs) = 1 THEN strs[1]
  ELSE strs[1] \o sep \o Join(Tail(strs), sep)

\* UTF-16 code units of the characters that occur in argument keys.
CharCode(c) ==
  CASE c = "a" -> 97
    [] c = "b" -> 98
    [] c = "x" -> 120
    [] OTHER -> 0

\* s < t in the order Array.prototype.sort uses by default (code units).
RECURSIVE StrLess(_, _)
StrLess(s, t) ==
  IF Len(t) = 0 THEN FALSE
  ELSE IF Len(s) = 0 THEN TRUE
  ELSE IF CharCode(s[1]) # CharCode(t[1]) THEN CharCode(s[1]) < CharCode(t[1])
  ELSE StrLess(Tail(s), Tail(t))

\* Object.keys(args).sort(): the keys in ascending order.
RECURSIVE SortedKeys(_)
SortedKeys(keys) ==
  IF keys = {} THEN <<>>
  ELSE LET least == CHOOSE k \in keys : \A j \in keys \ {k} : StrLess(k, j)
       IN  <<least>> \o SortedKeys(keys \ {least})

(***************************************************************************)
(* Regular expressions: the subset the approval patterns are written in,   *)
(* matched case-insensitively (every pattern carries the i flag)           *)
(***************************************************************************)

\* String.prototype.toLowerCase on one character.
Lower(c) ==
  CASE
    c = "A" -> "a" []
    c = "B" -> "b" []
    c = "C" -> "c" []
    c = "D" -> "d" []
    c = "E" -> "e" []
    c = "F" -> "f" []
    c = "G" -> "g" []
    c = "H" -> "h" []
    c = "I" -> "i" []
    c = "J" -> "j" []
    c = "K" -> "k" []
    c = "L" -> "l" []
    c = "M" -> "m" []
    c = "N" -> "n" []
    c = "O" -> "o" []
    c = "P" -> "p" []
    c = "Q" -> "q" []
    c = "R" -> "r" []
    c = "S" -> "s" []
    c = "T" -> "t" []
    c = "U" -> "u" []
    c = "V" -> "v" []
    c = "W" -> "w" []
    c = "X" -> "x" []
    c = "Y" -> "y" []
    c = "Z" -> "z"
    [] OTHER -> c

Lit(c) == [c |-> c, op |-> "lit"]
Str(cs) == [op |-> "str", cs |-> cs]
AnyOf(cs) == [op |-> "class", cs |-> cs]
AnyChar == [op |-> "any"]
Space == [op |-> "space"]
Bol == [op |-> "bol"]
Eol == [op |-> "eol"]
Cat(kids) == [op |-> "cat", kids |-> kids]
Alt(kids) == [op |-> "alt", kids |-> kids]
Star(kid) == [op |-> "star", kid |-> kid]
Plus(kid) == [op |-> "plus", kid |-> kid]
Opt(kid) == [op |-> "opt", kid |-> kid]

\* The characters \s matches and the line terminators . does not match.
WhiteSpace == {" ", "\t", "\n", "\r", "\f"}
LineTerminators == {"\n", "\r"}

RECURSIVE MatchEnds(_, _, _)
RECURSIVE CatEnds(_, _, _)
RECURSIVE ClosureEnds(_, _, _, _)

\* The positions j such that re matches s[i .. j-1].
MatchEnds(re, s, i) ==
  CASE re.op = "lit" -> IF i <= Len(s) /\ Lower(s[i]) = Lower(re.c) THEN {i + 1} ELSE {}
    [] re.op = "str" ->
         IF /\ i + Len(re.cs) - 1 <= Len(s)
            /\ \A k \in 1..Len(re.cs) : Lower(s[i + k - 1]) = Lower(re.cs[k])
           THEN {i + Len(re.cs)} ELSE {}
    [] re.op = "class" -> IF i <= Len(s) /\ s[i] \in re.cs THEN {i + 1} ELSE {}
    [] re.op = "any" -> IF i <= Len(s) /\ s[i] \notin LineTerminators THEN {i + 1} ELSE {}
    [] re.op = "space" -> IF i <= Len(s) /\ s[i] \in WhiteSpace THEN {i + 1} ELSE {}
    [] re.op = "bol" -> IF i = 1 THEN {i} ELSE {}
    [] re.op = "eol" -> IF i = Len(s) + 1 THEN {i} ELSE {}
    [] re.op = "cat" -> CatEnds(re.kids, s, {i})
    [] re.op = "alt" -> UNION {MatchEnds(re.kids[k], s, i) : k \in 1..Len(re.kids)}
    [] re.op = "star" -> ClosureEnds(re.kid, s, {i}, {i})
    [] re.op = "plus" -> ClosureEnds(re.kid, s, MatchEnds(re.kid, s, i), MatchEnds(re.kid, s, i))
    [] OTHER -> {i} \cup MatchEnds(re.kid, s, i)

CatEnds(kids, s, starts) ==
  IF Len(kids) = 0 \/ starts = {} THEN starts
  ELSE CatEnds(Tail(kids), s, UNION {MatchEnds(kids[1], s, j) : j \in starts})

ClosureEnds(kid, s, frontier, seen) ==
  LET next == UNION {MatchEnds(kid, s, j) : j \in frontier} \ seen
  IN  IF next = {} THEN seen ELSE ClosureEnds(kid, s, next, seen \cup next)

\* RegExp.prototype.test: a match starting anywhere in s.
RegexTest(re, s) == \E i \in 1..(Len(s) + 1) : MatchEnds(re, s, i) # {}

(***************************************************************************)
(* ApprovalManager (src/unnamed/part_001)                                  *)
(***************************************************************************)

DANGEROUS_PATTERNS ==
  << Cat(<<Str(<<"r","m">>), Plus(Space), Alt(<<Cat(<<Str(<<"-","r">>), Opt(Lit("f"))>>), Str(<<"-","-","r","e","c","u","r","s","i","v","e">>)>>), Plus(Space), AnyOf({"/", "~"})>>),  \* line 21
     Cat(<<Str(<<"r","m">>), Plus(Space), Str(<<"-","r">>), Opt(Lit("f")), Plus(Space), Lit("*")>>),  \* line 22
     Cat(<<Str(<<"r","m","d","i","r">>), Plus(Space), AnyOf({"/", "~"})>>),  \* line 23
     Cat(<<Str(<<"d","d">>), Plus(Space), Str(<<"i","f","=">>)>>),  \* line 24
     Str(<<"m","k","f","s">>),  \* line 25
     Str(<<"f","d","i","s","k">>),  \* line 26
     Str(<<"p","a","r","t","e","d">>),  \* line 27
     Str(<<"s","h","u","t","d","o","w","n">>),  \* line 28
     Str(<<"r","e","b","o","o","t">>),  \* line 29
     Str(<<"h","a","l","t">>),  \* line 30
     Str(<<"p","o","w","e","r","o","f","f">>),  \* line 31
     Cat(<<Str(<<"i","n","i","t">>), Plus(Space), AnyOf({"0", "6"})>>),  \* line 32
     Cat(<<Str(<<"c","h","m","o","d">>), Plus(Space), Opt(Cat(<<Str(<<"-","R">>), Plus(Space)>>)), Str(<<"7","7","7">>), Plus(Space), AnyOf({"/", "~"})>>),  \* line 33
     Cat(<<Str(<<"c","h","o","w","n">>), Plus(Space), Str(<<"-","R">>), Plus(Space), Star(AnyChar), Plus(Space), AnyOf({"/", "~"})>>),  \* line 34
     Cat(<<Str(<<"n","c">>), Plus(Space), Str(<<"-","l">>)>>),  \* line 35
     Cat(<<Str(<<"n","e","t","c","a","t">>), Plus(Space), Str(<<"-","l">>)>>),  \* line 36
     Cat(<<Str(<<"c","u","r","l">>), Plus(Space), Star(AnyChar), Lit("|"), Star(Space), Alt(<<Str(<<"b","a","s","h">>), Str(<<"s","h">>)>>)>>),  \* line 37
     Cat(<<Str(<<"w","g","e","t">>), Plus(Space), Star(AnyChar), Lit("|"), Star(Space), Alt(<<Str(<<"b","a","s","h">>), Str(<<"s","h">>)>>)>>),  \* line 38
     Cat(<<Str(<<":","(",")">>), Star(Space), Lit("{"), Star(Space), Str(<<":","|",":","&">>), Star(Space), Lit("}"), Star(Space), Lit(";")>>) >>  \* line 39

SAFE_PATTERNS ==
  << Cat(<<Bol, Alt(<<Str(<<"l","s">>), Str(<<"d","i","r">>), Str(<<"p","w","d">>), Str(<<"c","d">>), Str(<<"e","c","h","o">>), Str(<<"c","a","t">>), Str(<<"h","e","a","d">>), Str(<<"t","a","i","l">>), Str(<<"l","e","s","s">>), Str(<<"m","o","r","e">>), Str(<<"w","c">>)>>), Alt(<<Space, Eol>>)>>),  \* line 43
     Cat(<<Bol, Alt(<<Str(<<"f","i","n","d">>), Str(<<"l","o","c","a","t","e">>), Str(<<"w","h","i","c","h">>), Str(<<"w","h","e","r","e","i","s">>), Str(<<"f","i","l","e">>), Str(<<"s","t","a","t">>)>>), Alt(<<Space, Eol>>)>>),  \* line 44
     Cat(<<Bol, Str(<<"g","i","t">>), Plus(Space), Alt(<<Str(<<"s","t","a","t","u","s">>), Str(<<"l","o","g">>), Str(<<"d","i","f","f">>), Str(<<"s","h","o","w">>), Str(<<"b","r","a","n","c","h">>), Str(<<"r","e","m","o","t","e">>), Str(<<"t","a","g">>)>>), Alt(<<Space, Eol>>)>>),  \* line 45
     Cat(<<Bol, Alt(<<Str(<<"n","p","m">>), Str(<<"y","a","r","n">>), Str(<<"p","n","p","m">>)>>), Plus(Space), Alt(<<Str(<<"l","i","s","t">>), Str(<<"l","s">>), Str(<<"o","u","t","d","a","t","e","d">>)>>), Alt(<<Space, Eol>>)>>),  \* line 46
     Cat(<<Bol, Str(<<"p","i","p">>), Plus(Space), Alt(<<Str(<<"l","i","s","t">>), Str(<<"s","h","o","w">>), Str(<<"f","r","e","e","z","e">>)>>), Alt(<<Space, Eol>>)>>),  \* line 47
     Cat(<<Bol, Str(<<"c","a","r","g","o">>), Plus(Space), Alt(<<Str(<<"t","r","e","e">>), Str(<<"s","e","a","r","c","h">>)>>), Alt(<<Space, Eol>>)>>),  \* line 48
     Cat(<<Bol, Alt(<<Str(<<"g","r","e","p">>), Str(<<"a","w","k">>), Str(<<"s","e","d">>), Str(<<"c","u","t">>), Str(<<"s","o","r","t">>), Str(<<"u","n","i","q">>), Str(<<"t","r">>), Str(<<"d","i","f","f">>), Str(<<"c","o","m","m">>)>>), Alt(<<Space, Eol>>)>>),  \* line 49
     Cat(<<Bol, Alt(<<Str(<<"d","a","t","e">>), Str(<<"c","a","l">>), Str(<<"u","p","t","i","m","e">>), Str(<<"w","h","o","a","m","i">>), Str(<<"i","d">>), Str(<<"g","r","o","u","p","s">>), Str(<<"h","o","s","t","n","a","m","e">>), Str(<<"u","n","a","m","e">>)>>), Alt(<<Space, Eol>>)>>),  \* line 50
     Cat(<<Bol, Alt(<<Str(<<"e","n","v">>), Str(<<"p","r","i","n","t","e","n","v">>), Str(<<"s","e","t">>)>>), Eol>>),  \* line 51
     Cat(<<Bol, Alt(<<Str(<<"p","s">>), Str(<<"t","o","p">>), Str(<<"h","t","o","p">>), Str(<<"p","g","r","e","p">>)>>), Alt(<<Space, Eol>>)>>) >>  \* line 52


isDangerousCommand(command) ==
  \E k \in 1..Len(DANGEROUS_PATTERNS) : RegexTest(DANGEROUS_PATTERNS[k], command)

isSafeCommand(command) ==
  \E k \in 1..Len(SAFE_PATTERNS) : RegexTest(SAFE_PATTERNS[k], command)

ON_REQUEST == "on-request"
ON_FAILURE == "on-failure"
AUTO == "auto"
AUTO_EDIT == "auto-edit"
NEVER == "never"
YOLO == "yolo"
ApprovalPolicy == {ON_REQUEST, ON_FAILURE, AUTO, AUTO_EDIT, NEVER, YOLO}

APPROVED == "approved"
REJECTED == "rejected"
NEEDS_CONFIRMATION == "needs_confirmation"

\* A command check that consults the safe patterns before the dangerous ones.
assessCommandSafety_safeFirst(policy, command) ==
  IF policy = YOLO THEN APPROVED
  ELSE IF policy \in {NEVER, AUTO_EDIT, ON_REQUEST} /\ isSafeCommand(command) THEN APPROVED
  ELSE IF isDangerousCommand(command) THEN REJECTED
  ELSE IF policy = NEVER THEN REJECTED
  ELSE IF policy \in {AUTO, ON_FAILURE} THEN APPROVED
  ELSE NEEDS_CONFIRMATION

\* assessCommandSafety, lines 74-96.
assessCommandSafety(policy, command) ==
  IF policy = YOLO THEN APPROVED
  ELSE IF isDangerousCommand(command) THEN REJECTED
  ELSE IF policy = NEVER THEN (IF isSafeCommand(command) THEN APPROVED ELSE REJECTED)
  ELSE IF policy \in {AUTO, ON_FAILURE} THEN APPROVED
  ELSE IF policy = AUTO_EDIT
    THEN (IF isSafeCommand(command) THEN APPROVED ELSE NEEDS_CONFIRMATION)
  ELSE (IF isSafeCommand(command) THEN APPROVED ELSE NEEDS_CONFIRMATION)

\* String.prototype.split("/") as path.resolve uses it: the segments of a path.
RECURSIVE SplitPath(_, _)
SplitPath(s, current) ==
  IF Len(s) = 0 THEN <<current>>
  ELSE IF s[1] = "/" THEN <<current>> \o SplitPath(Tail(s), <<>>)
  ELSE SplitPath(Tail(s), Append(current, s[1]))

\* path.resolve's normalisation: "" and "." dropped, ".." removes the segment before it.
RECURSIVE NormalizeSegments(_, _)
NormalizeSegments(segs, done) ==
  IF Len(segs) = 0 THEN done
  ELSE IF segs[1] = <<>> \/ segs[1] = <<".">> THEN NormalizeSegments(Tail(segs), done)
  ELSE IF segs[1] = <<".", ".">>
    THEN NormalizeSegments(Tail(segs), IF Len(done) = 0 THEN done ELSE SubSeq(done, 1, Len(done) - 1))
  ELSE NormalizeSegments(Tail(segs), Append(done, segs[1]))

\* process.cwd(): the directory a relative path is resolved against.
processCwd == <<"/","w","/","p">>

\* path.resolve(target) on a POSIX system.
PathResolve(target) ==
  LET absolute == IF Len(target) > 0 /\ target[1] = "/" THEN target
                  ELSE processCwd \o <<"/">> \o target
  IN  <<"/">> \o Join(NormalizeSegments(SplitPath(absolute, <<>>), <<>>), <<"/">>)

\* String.prototype.startsWith.
StartsWith(s, prefix) == Len(s) >= Len(prefix) /\ SubSeq(s, 1, Len(prefix)) = prefix

\* An ApprovalContext; command is <<>> when absent and <<text>> when present.
ApprovalContext(isMutating, affectedPaths, command, isDangerous) ==
  [command |-> command, isMutating |-> isMutating,
   affectedPaths |-> affectedPaths, isDangerous |-> isDangerous]

\* if (context.command): present and not the empty string.
HasCommand(context) == context.command # <<>> /\ context.command[1] # <<>>

\* checkApproval, lines 110-115: some affected path resolves to a string that
\* does not start with the resolved working directory.
pathOutsideCwd(cwd, affectedPaths) ==
  \E k \in 1..Len(affectedPaths) :
    ~StartsWith(PathResolve(affectedPaths[k]), PathResolve(cwd))

checkApproval(policy, cwd, context) ==
  IF ~context.isMutating THEN APPROVED
  ELSE IF HasCommand(context) /\ assessCommandSafety(policy, context.command[1]) # NEEDS_CONFIRMATION
    THEN assessCommandSafety(policy, context.command[1])
  ELSE IF pathOutsideCwd(cwd, context.affectedPaths) THEN NEEDS_CONFIRMATION
  ELSE IF context.isDangerous THEN (IF policy = YOLO THEN APPROVED ELSE NEEDS_CONFIRMATION)
  ELSE APPROVED

(***************************************************************************)
(* JavaScript values that reach the loop detector as tool-call arguments   *)
(***************************************************************************)

JsStr(s) == [s |-> s, t |-> "string", n |-> 0]
JsNum(n) == [s |-> <<>>, t |-> "number", n |-> n]
JsObj == [s |-> <<>>, t |-> "object", n |-> 0]
JsNull == [s |-> <<>>, t |-> "null", n |-> 0]
JsUndefined == [s |-> <<>>, t |-> "undefined", n |-> 0]

DigitChar(d) ==
  CASE d = 0 -> "0" [] d = 1 -> "1" [] d = 2 -> "2" [] d = 3 -> "3" [] d = 4 -> "4"
    [] d = 5 -> "5" [] d = 6 -> "6" [] d = 7 -> "7" [] d = 8 -> "8" [] OTHER -> "9"

RECURSIVE Decimal(_)
Decimal(n) == IF n < 10 THEN <<DigitChar(n)>> ELSE Decimal(n \div 10) \o <<DigitChar(n % 10)>>

\* String(value) for the values above.
JsString(v) ==
  CASE v.t = "string" -> v.s
    [] v.t = "number" -> Decimal(v.n)
    [] v.t = "null" -> <<"n","u","l","l">>
    [] v.t = "undefined" -> <<"u","n","d","e","f","i","n","e","d">>
    [] OTHER -> <<"[","o","b","j","e","c","t"," ","O","b","j","e","c","t","]">>

\* x ?? d, with an absent property written <<>> and a present one <<x>>.
Nullish(opt, d) == IF opt = <<>> THEN d ELSE opt[1]

(***************************************************************************)
(* LoopDetector (src/src/context/loopDetector.ts)                          *)
(***************************************************************************)

maxExactRepeats == 3
maxCycleLength == 3
historyMax == 20

TOOL_CALL == <<"t","o","o","l","_","c","a","l","l">>
RESPONSE == <<"r","e","s","p","o","n","s","e">>

\* An args object: its own keys and their values.  A non-object args value
\* (typeof args !== "object") has isObject = FALSE.
ArgsObject(keys, val) == [keys |-> keys, val |-> val, isObject |-> TRUE]
NoArgs == ArgsObject({}, <<>>)

\* details of recordAction; every property may be absent.
Details(toolName, args, text) == [toolName |-> toolName, args |-> args, text |-> text]

\* The "key=value" entries of the sorted keys.
RECURSIVE KeyValueEntries(_, _)
KeyValueEntries(keys, val) ==
  IF Len(keys) = 0 THEN <<>>
  ELSE <<keys[1] \o <<"=">> \o JsString(val[keys[1]])>> \o KeyValueEntries(Tail(keys), val)

\* recordAction, lines 8-22: the signature of one action.
signatureOf(actionType, details) ==
  LET args == Nullish(details.args, NoArgs)
      output ==
        IF actionType = TOOL_CALL
          THEN <<actionType, Nullish(details.toolName, <<>>)>>
               \o (IF args.isObject THEN KeyValueEntries(SortedKeys(args.keys), args.val) ELSE <<>>)
        ELSE IF actionType = RESPONSE
          THEN <<actionType, Nullish(details.text, <<>>)>>
        ELSE <<actionType>>
  IN  Join(output, <<"|">>)

\* A push that evicts one call too early (>= where the code has >).
pushSignature_evictsEarly(hist, signature) ==
  LET pushed == Append(hist, signature)
  IN  IF Len(pushed) >= 20 THEN Tail(pushed) ELSE pushed

\* recordAction, lines 23-26: push, then drop the oldest when over capacity.
pushSignature(hist, signature) ==
  LET pushed == Append(hist, signature)
  IN  IF Len(pushed) > historyMax THEN Tail(pushed) ELSE pushed

\* Array.prototype.slice(-n): the last n elements (all of them when n >= length).
SliceLast(s, n) == IF n >= Len(s) THEN s ELSE SubSeq(s, Len(s) - n + 1, Len(s))

\* What checkForLoop returns: null, or one of its two messages.
NoLoop == [n |-> 0, kind |-> "null"]
RepeatedAction(n) == [n |-> n, kind |-> "repeated"]
RepeatingCycle(n) == [n |-> n, kind |-> "cycle"]

Min(a, b) == IF a < b THEN a ELSE b

\* A scan that stops before the longest cycle length (< where the code has <=).
RECURSIVE cycleScan_stopsEarly(_, _, _)
cycleScan_stopsEarly(hist, cycleLen, maxCycle) ==
  IF cycleLen >= maxCycle THEN NoLoop
  ELSE LET recent == SliceLast(hist, cycleLen * 2)
       IN  IF Join(SubSeq(recent, 1, Min(cycleLen, Len(recent))), <<",">>)
                = Join(SubSeq(recent, cycleLen + 1, Len(recent)), <<",">>)
             THEN RepeatingCycle(cycleLen)
             ELSE cycleScan_stopsEarly(hist, cycleLen + 1, maxCycle)

\* checkForLoop, lines 44-49: the for loop over cycleLen, from cycleLen upward.
RECURSIVE cycleScan(_, _, _)
cycleScan(hist, cycleLen, maxCycle) ==
  IF cycleLen > maxCycle THEN NoLoop
  ELSE LET recent == SliceLast(hist, cycleLen * 2)
           firstHalf == SubSeq(recent, 1, Min(cycleLen, Len(recent)))
           secondHalf == SubSeq(recent, cycleLen + 1, Len(recent))
       IN  IF Join(firstHalf, <<",">>) = Join(secondHalf, <<",">>)
             THEN RepeatingCycle(cycleLen)
             ELSE cycleScan(hist, cycleLen + 1, maxCycle)

\* A check whose exact-repeat rule needs one more entry than the three it compares.
checkForLoop_repeatNeedsFour(hist) ==
  IF Len(hist) < 2 THEN NoLoop
  ELSE IF Len(hist) > 3
          /\ Cardinality({SliceLast(hist, 3)[i] : i \in 1..3}) = 1
    THEN RepeatedAction(3)
  ELSE IF Len(hist) >= 6
    THEN cycleScan(hist, 2, Min(3, Len(hist) \div 2))
  ELSE NoLoop

\* checkForLoop, lines 29-53.
checkForLoop(hist) ==
  IF Len(hist) < 2 THEN NoLoop
  ELSE IF Len(hist) >= maxExactRepeats
          /\ Cardinality({SliceLast(hist, maxExactRepeats)[i] : i \in 1..maxExactRepeats}) = 1
    THEN RepeatedAction(maxExactRepeats)
  ELSE IF Len(hist) >= maxCycleLength * 2
    THEN cycleScan(hist, 2, Min(maxCycleLength, Len(hist) \div 2))
  ELSE NoLoop

(***************************************************************************)
(* Tools and ToolRegistry.invoke (src/src/tools/base.ts,                   *)
(* src/src/tools/builtin, src/src/tools/subagents.ts)                      *)
(***************************************************************************)

\* params[field]: undefined when the object has no such property.
Prop(params, field) ==
  IF params.isObject /\ field \in params.keys THEN params.val[field] ELSE JsUndefined

\* String.prototype.includes.
Includes(s, sub) ==
  \E i \in 1..(Len(s) - Len(sub) + 1) : SubSeq(s, i, i + Len(sub) - 1) = sub

\* String.prototype.trim.
RECURSIVE TrimStart(_)
TrimStart(s) == IF Len(s) > 0 /\ s[1] \in WhiteSpace THEN TrimStart(Tail(s)) ELSE s
RECURSIVE TrimEnd(_)
TrimEnd(s) ==
  IF Len(s) > 0 /\ s[Len(s)] \in WhiteSpace THEN TrimEnd(SubSeq(s, 1, Len(s) - 1)) ELSE s
Trim(s) == TrimEnd(TrimStart(s))

\* BLOCKED_COMMANDS, in source order (shell.ts lines 6-24).
BLOCKED_COMMANDS == <<
  <<"r","m"," ","-","r","f"," ","/">>,  \* line 7: rm -rf /
  <<"r","m"," ","-","r","f"," ","~">>,  \* line 8: rm -rf ~
  <<"r","m"," ","-","r","f"," ","/","*">>,  \* line 9: rm -rf /*
  <<"d","d"," ","i","f","=","/","d","e","v","/","z","e","r","o">>,  \* line 10: dd if=/dev/zero
  <<"d","d"," ","i","f","=","/","d","e","v","/","r","a","n","d","o","m">>,  \* line 11: dd if=/dev/random
  <<"m","k","f","s">>,  \* line 12: mkfs
  <<"f","d","i","s","k">>,  \* line 13: fdisk
  <<"p","a","r","t","e","d">>,  \* line 14: parted
  <<":","(",")","{"," ",":","|",":","&"," ","}",";",":">>,  \* line 15: :(){ :|:& };:
  <<"c","h","m","o","d"," ","7","7","7"," ","/">>,  \* line 16: chmod 777 /
  <<"c","h","m","o","d"," ","-","R"," ","7","7","7">>,  \* line 17: chmod -R 777
  <<"s","h","u","t","d","o","w","n">>,  \* line 18: shutdown
  <<"r","e","b","o","o","t">>,  \* line 19: reboot
  <<"h","a","l","t">>,  \* line 20: halt
  <<"p","o","w","e","r","o","f","f">>,  \* line 21: poweroff
  <<"i","n","i","t"," ","0">>,  \* line 22: init 0
  <<"i","n","i","t"," ","6">>  \* line 23: init 6
>>
\* Whether some blocked entry is a substring of the command.
IsBlocked(command) ==
  \E i \in 1..Len(BLOCKED_COMMANDS) : Includes(command, BLOCKED_COMMANDS[i])

\* ToolKind.
READ == "read"
WRITE == "write"
SHELL == "shell"
NETWORK == "network"
MEMORY == "memory"

\* A tool: its name, kind, required parameters, and which getConfirmation
\* it has ("base": Tool.getConfirmation, "shell": ShellTool's, "path":
\* MakeDirTool's).
ToolDef(name, kind, required, confirms) ==
  [kind |-> kind, name |-> name, required |-> required, confirms |-> confirms]

ShellName == <<"s","h","e","l","l">>
MakeDirName == <<"m","a","k","e","_","d","i","r">>
ListDirName == <<"l","i","s","t","_","d","i","r">>
MemoryName == <<"m","e","m","o","r","y">>
CommandField == <<"c","o","m","m","a","n","d">>
PathField == <<"p","a","t","h">>
ActionField == <<"a","c","t","i","o","n">>

ShellTool == ToolDef(ShellName, SHELL, <<CommandField>>, "shell")
MakeDirTool == ToolDef(MakeDirName, WRITE, <<PathField>>, "path")
ListDirTool == ToolDef(ListDirName, READ, <<PathField>>, "base")
MemoryTool == ToolDef(MemoryName, MEMORY, <<ActionField>>, "base")

\* ToolRegistry.tools after createDefaultRegistry: four of the built-in
\* tools, one of each way of confirming.
tools == {ShellTool, MakeDirTool, ListDirTool, MemoryTool}

\* ToolRegistry.get: <<>> for undefined.
get(name) ==
  IF \E t \in tools : t.name = name THEN <<CHOOSE t \in tools : t.name = name>> ELSE <<>>

\* ToolRegistry.getTools under Config.allowedTools: the registered tools,
\* filtered by name when the list is configured and non-empty.
getTools(allowed) ==
  IF allowed # <<>> /\ Len(allowed[1]) > 0
    THEN {t \in tools : \E i \in 1..Len(allowed[1]) : allowed[1][i] = t.name}
  ELSE tools

\* Tool.validateParams: one error per required field that is undefined or null.
validateParams(tool, params) ==
  SelectSeq(tool.required,
            LAMBDA field : Prop(params, field) \in {JsUndefined, JsNull})

\* Tool.isMutating.
isMutating(tool) == tool.kind \in {WRITE, SHELL, NETWORK, MEMORY}

\* resolvePath(base, target) of the path utilities.
resolvePath(base, target) ==
  IF Len(target) > 0 /\ target[1] = "/" THEN PathResolve(target)
  ELSE PathResolve(base \o <<"/">> \o target)

\* A ToolConfirmation; command and isDangerous may be absent.
ToolConfirmation(affectedPaths, command, isDangerous) ==
  [command |-> command, affectedPaths |-> affectedPaths, isDangerous |-> isDangerous]

\* Whether tool.getConfirmation throws: ShellTool calls params.command.includes
\* and MakeDirTool calls path.isAbsolute(params.path), and both throw a
\* TypeError when the value is not a string.
getConfirmationThrows(tool, params) ==
  \/ tool.confirms = "shell" /\ Prop(params, CommandField).t # "string"
  \/ tool.confirms = "path" /\ Prop(params, PathField).t # "string"

\* tool.getConfirmation when it does not throw: <<>> for null.
getConfirmation(tool, params, cwd) ==
  IF tool.confirms = "shell"
    THEN LET command == Prop(params, CommandField).s
         IN  <<ToolConfirmation(<<>>, <<command>>, <<IsBlocked(command)>>)>>
  ELSE IF tool.confirms = "path"
    THEN <<ToolConfirmation(<< <<resolvePath(cwd, Prop(params, PathField).s)>> >>, <<>>, <<>>)>>
  ELSE IF ~isMutating(tool) THEN <<>>
  ELSE <<ToolConfirmation(<<>>, <<>>, <<>>)>>

\* A ToolResult; error is the message's fixed part.
ToolResultError(error) == [error |-> error, success |-> FALSE]
ToolResultSuccess == [error |-> "", success |-> TRUE]

\* tool.execute under an environment that lets it succeed, fail or throw
\* (env).  ShellTool refuses a blocked command whatever the environment;
\* a non-string command or path throws before any work is done.
execute(tool, params, env) ==
  IF tool.confirms = "shell" /\ Prop(params, CommandField).t # "string" THEN "throw"
  ELSE IF tool.confirms = "shell" /\ IsBlocked(Trim(Prop(params, CommandField).s)) THEN "failure"
  ELSE IF tool.confirms = "path" /\ Prop(params, PathField).t # "string" THEN "throw"
  ELSE env

\* ApprovalManager.requestConfirmation: the callback's answer, true without one.
requestConfirmation(confirmationCallback) ==
  IF confirmationCallback = <<>> THEN TRUE ELSE confirmationCallback[1]

\* The context of no checkApproval call.
NoContext == ApprovalContext(FALSE, <<>>, <<>>, FALSE)

\* What one invoke call did: whether an exception escaped it, the ToolResult
\* it returned (<<>> when it returned none), how many times each hook
\* trigger was called, how many times tool.execute ran, whether
\* requestConfirmation was called, and the approval check made on the way
\* (NoContext and "none" without one).
InvokeOutcome(threw, result, beforeTool, afterTool, executed, asked, context, decision) ==
  [context |-> context, threw |-> threw, result |-> result, beforeTool |-> beforeTool,
   afterTool |-> afterTool, executed |-> executed, asked |-> asked, decision |-> decision]

\* A failed execution is run once more before its result is returned.
executeGuarded_retriesOnFailure(tool, params, env, asked, context, decision) ==
  LET run == execute(tool, params, env)
      result == IF run = "success" THEN ToolResultSuccess
                ELSE IF run = "failure" THEN ToolResultError("Tool error")
                ELSE ToolResultError("Internal error")
  IN  InvokeOutcome(FALSE, <<result>>, 1, 1, IF run = "success" THEN 1 ELSE 2,
                    asked, context, decision)

\* The try/catch around tool.execute, lines 249-257.
executeGuarded(tool, params, env, asked, context, decision) ==
  LET run == execute(tool, params, env)
      result == IF run = "success" THEN ToolResultSuccess
                ELSE IF run = "failure" THEN ToolResultError("Tool error")
                ELSE ToolResultError("Internal error")
  IN  InvokeOutcome(FALSE, <<result>>, 1, 1, 1, asked, context, decision)

\* A rejected operation is executed like an approved one.
afterApproval_ignoresRejection(tool, params, env, manager, context, decision) ==
  IF decision = NEEDS_CONFIRMATION /\ ~requestConfirmation(manager.confirmationCallback)
    THEN InvokeOutcome(FALSE, <<ToolResultError("User rejected the operation")>>,
                       1, 1, 0, TRUE, context, decision)
  ELSE executeGuarded(tool, params, env, decision = NEEDS_CONFIRMATION, context, decision)

\* ToolRegistry.invoke from the approval decision on, lines 233-257.
afterApproval(tool, params, env, manager, context, decision) ==
  IF decision = REJECTED
    THEN InvokeOutcome(FALSE, <<ToolResultError("Operation rejected by safety policy")>>,
                       1, 1, 0, FALSE, context, decision)
  ELSE IF decision = NEEDS_CONFIRMATION /\ ~requestConfirmation(manager.confirmationCallback)
    THEN InvokeOutcome(FALSE, <<ToolResultError("User rejected the operation")>>,
                       1, 1, 0, TRUE, context, decision)
  ELSE executeGuarded(tool, params, env, decision = NEEDS_CONFIRMATION, context, decision)

\* ToolRegistry.invoke, lines 192-258.  approvalManager is <<>> when the
\* caller passes none, else <<[approvalPolicy, cwd, confirmationCallback]>>.
invoke(name, params, cwd, approvalManager, env) ==
  IF get(name) = <<>>
    THEN InvokeOutcome(FALSE, <<ToolResultError("Unknown tool")>>, 0, 1,
                       0, FALSE, NoContext, "none")
  ELSE LET tool == get(name)[1] IN
    IF validateParams(tool, params) # <<>>
      THEN InvokeOutcome(FALSE, <<ToolResultError("Invalid parameters")>>, 0, 1,
                         0, FALSE, NoContext, "none")
    ELSE IF approvalManager = <<>>
      THEN executeGuarded(tool, params, env, FALSE, NoContext, "none")
    ELSE IF getConfirmationThrows(tool, params)
      THEN InvokeOutcome(TRUE, <<>>, 1, 0, 0, FALSE, NoContext, "none")
    ELSE LET confirmation == getConfirmation(tool, params, cwd) IN
      IF confirmation = <<>>
        THEN executeGuarded(tool, params, env, FALSE, NoContext, "none")
      ELSE LET manager == approvalManager[1]
               context == ApprovalContext(isMutating(tool),
                                          Nullish(confirmation[1].affectedPaths, <<>>),
                                          confirmation[1].command,
                                          Nullish(confirmation[1].isDangerous, FALSE))
               decision == checkApproval(manager.approvalPolicy, manager.cwd, context)
           IN  afterApproval(tool, params, env, manager, context, decision)

\* new ApprovalManager(policy, cwd) with its confirmation callback.
ApprovalManager(approvalPolicy, cwd, confirmationCallback) ==
  [cwd |-> cwd, confirmationCallback |-> confirmationCallback, approvalPolicy |-> approvalPolicy]

(***************************************************************************)
(* ContextManager and ChatCompactor (src/unnamed/part_005)                 *)
(***************************************************************************)

PRUNE_PROTECT_TOKENS == 40000
PRUNE_MINIMUM_TOKENS == 20000

\* A message content: what it says, and the number countTokens returns for
\* it (the tokenizer is outside the program).
\* kind names where the text comes from; text is spelled out only for the
\* model's own text, which the loop detector reads.
Content(kind, text, tokens) == [text |-> text, kind |-> kind, tokens |-> tokens]
EmptyContent == Content("empty", <<>>, 0)

\* A MessageItem as the add* methods build it; toolCallId is <<>> when absent.
MessageItem(role, content, toolCallId, calls) ==
  [toolCalls |-> calls, role |-> role, content |-> content, toolCallId |-> toolCallId,
   tokenCount |-> content.tokens, prunedAt |-> FALSE]

addUserMessage(msgs, content) ==
  Append(msgs, MessageItem("user", content, <<>>, <<>>))

\* The tool calls of the response are not stored with the message.
addAssistantMessage_dropsCalls(msgs, content, calls) ==
  Append(msgs, MessageItem("assistant", Nullish(content, EmptyContent), <<>>, <<>>))

\* content is <<>> for null; toolCalls is <<>> for null.
addAssistantMessage(msgs, content, calls) ==
  Append(msgs, MessageItem("assistant", Nullish(content, EmptyContent), <<>>, calls))

addToolResult(msgs, toolCallId, content) ==
  Append(msgs, MessageItem("tool", content, <<toolCallId>>, <<>>))

\* TokenUsage and addUsage of the response module.
TokenUsage(promptTokens, completionTokens, totalTokens, cachedTokens) ==
  [promptTokens |-> promptTokens, completionTokens |-> completionTokens,
   totalTokens |-> totalTokens, cachedTokens |-> cachedTokens]
ZeroUsage == TokenUsage(0, 0, 0, 0)
addUsage(a, b) ==
  TokenUsage(a.promptTokens + b.promptTokens, a.completionTokens + b.completionTokens,
             a.totalTokens + b.totalTokens, a.cachedTokens + b.cachedTokens)

\* The threshold itself already asks for compression.
needsCompression_atThreshold(latest, window) == latest.totalTokens * 10 >= window * 8

\* needsCompression: currentTokens > contextWindow * 0.8, in integers.
needsCompression(latest, contextWindow) == latest.totalTokens * 10 > contextWindow * 8

\* The three messages replaceWithSummary leaves.
\* The continuation message embeds the summary.
ContinuationContent(summary) == Content("continuation", <<summary>>, summary.tokens + 60)
AckContent == Content("ack", <<>>, 70)
ContinueContent == Content("continue", <<>>, 30)
\* The acknowledgment is left out.
replaceWithSummary_noAck(summary) ==
  addUserMessage(addUserMessage(<<>>, ContinuationContent(summary)), ContinueContent)

replaceWithSummary(summary) ==
  addUserMessage(
    addAssistantMessage(addUserMessage(<<>>, ContinuationContent(summary)), <<AckContent>>, <<>>),
    ContinueContent)

\* A scan that does not stop at a message already pruned.
RECURSIVE pruneScan_walksOn(_, _, _, _, _)
pruneScan_walksOn(msgs, i, totalTokens, prunedTokens, toPrune) ==
  IF i = 0 THEN [prunedTokens |-> prunedTokens, toPrune |-> toPrune]
  ELSE IF msgs[i].role = "tool" /\ msgs[i].toolCallId # <<>>
    THEN IF totalTokens + msgs[i].tokenCount > PRUNE_PROTECT_TOKENS
           THEN pruneScan_walksOn(msgs, i - 1, totalTokens + msgs[i].tokenCount,
                                  prunedTokens + msgs[i].tokenCount, toPrune \cup {i})
         ELSE pruneScan_walksOn(msgs, i - 1, totalTokens + msgs[i].tokenCount, prunedTokens,
                                toPrune)
  ELSE pruneScan_walksOn(msgs, i - 1, totalTokens, prunedTokens, toPrune)

\* pruneToolOutputs, lines 244-262: the scan from the newest message back.
RECURSIVE pruneScan(_, _, _, _, _)
pruneScan(msgs, i, totalTokens, prunedTokens, toPrune) ==
  IF i = 0 THEN [prunedTokens |-> prunedTokens, toPrune |-> toPrune]
  ELSE IF msgs[i].role = "tool" /\ msgs[i].toolCallId # <<>>
    THEN IF msgs[i].prunedAt THEN [prunedTokens |-> prunedTokens, toPrune |-> toPrune]
         ELSE IF totalTokens + msgs[i].tokenCount > PRUNE_PROTECT_TOKENS
           THEN pruneScan(msgs, i - 1, totalTokens + msgs[i].tokenCount,
                          prunedTokens + msgs[i].tokenCount, toPrune \cup {i})
         ELSE pruneScan(msgs, i - 1, totalTokens + msgs[i].tokenCount, prunedTokens, toPrune)
  ELSE pruneScan(msgs, i - 1, totalTokens, prunedTokens, toPrune)

PrunedContent == Content("cleared", <<>>, 8)

\* The pruned messages get the placeholder but keep their cached token
\* count and are not marked.
pruneToolOutputs_forgetsMark(msgs) ==
  LET userMessageCount == Cardinality({i \in 1..Len(msgs) : msgs[i].role = "user"})
      scan == pruneScan(msgs, Len(msgs), 0, 0, {})
  IN  IF userMessageCount < 2 THEN msgs
      ELSE IF scan.prunedTokens < PRUNE_MINIMUM_TOKENS THEN msgs
      ELSE [i \in 1..Len(msgs) |->
              IF i \in scan.toPrune THEN [msgs[i] EXCEPT !.content = PrunedContent]
              ELSE msgs[i]]

\* The pruned messages are removed from the history.
RECURSIVE dropIndices(_, _, _)
dropIndices(msgs, i, drop) ==
  IF i > Len(msgs) THEN <<>>
  ELSE (IF i \in drop THEN <<>> ELSE <<msgs[i]>>) \o dropIndices(msgs, i + 1, drop)
pruneToolOutputs_dropsPruned(msgs) ==
  LET userMessageCount == Cardinality({i \in 1..Len(msgs) : msgs[i].role = "user"})
      scan == pruneScan(msgs, Len(msgs), 0, 0, {})
  IN  IF userMessageCount < 2 THEN msgs
      ELSE IF scan.prunedTokens < PRUNE_MINIMUM_TOKENS THEN msgs
      ELSE dropIndices(msgs, 1, scan.toPrune)

\* pruneToolOutputs: the messages it leaves.
pruneToolOutputs(msgs) ==
  LET userMessageCount == Cardinality({i \in 1..Len(msgs) : msgs[i].role = "user"})
      scan == pruneScan(msgs, Len(msgs), 0, 0, {})
  IN  IF userMessageCount < 2 THEN msgs
      ELSE IF scan.prunedTokens < PRUNE_MINIMUM_TOKENS THEN msgs
      ELSE [i \in 1..Len(msgs) |->
              IF i \in scan.toPrune
                THEN [msgs[i] EXCEPT !.content = PrunedContent,
                                     !.tokenCount = PrunedContent.tokens,
                                     !.prunedAt = TRUE]
              ELSE msgs[i]]

\* pruneToolOutputs: the number it returns.
pruneToolOutputsReturn(msgs) ==
  LET userMessageCount == Cardinality({i \in 1..Len(msgs) : msgs[i].role = "user"})
      scan == pruneScan(msgs, Len(msgs), 0, 0, {})
  IN  IF userMessageCount < 2 THEN 0
      ELSE IF scan.prunedTokens < PRUNE_MINIMUM_TOKENS THEN 0
      ELSE Cardinality(scan.toPrune)

\* getMessages().length: the messages and the system prompt before them.
getMessagesLength(msgs) == Len(msgs) + 1

\* One element of what getMessages returns; a field the payload does not
\* have is <<>>, a field it has is <<its value>>.
Payload(role, tool_call_id, tool_calls, content) ==
  [role |-> role, content |-> content, tool_call_id |-> tool_call_id,
   tool_calls |-> tool_calls]

\* The content of a message that was added with content undefined, where
\* the tokenizer accepted it.
UndefinedContent == Content("undefined", <<>>, 0)

\* if (item.content): false for the empty string and for undefined.
Truthy(content) == content \notin {EmptyContent, UndefinedContent}

\* getMessages, lines 175-197: the system message, then one payload per
\* message with the fields that are set and not empty.
getMessages(msgs) ==
  <<Payload("system", <<>>, <<>>, <<Content("system", <<>>, 0)>>)>>
  \o [i \in 1..Len(msgs) |->
        Payload(msgs[i].role,
                msgs[i].toolCallId,
                IF Len(msgs[i].toolCalls) > 0 THEN <<msgs[i].toolCalls>> ELSE <<>>,
                IF Truthy(msgs[i].content) THEN <<msgs[i].content>> ELSE <<>>)]

\* What replaying a snapshot's messages gives: whether an add* call threw,
\* and the messages of the new ContextManager.
Replayed(threw, msgs) == [messages |-> msgs, threw |-> threw]

\* The loop of /resume and /restore over snapshot.messages, main.ts lines
\* 267-279, on a new ContextManager holding msgs.  A payload without content
\* passes undefined to addUserMessage and addToolResult, whose countTokens
\* call (part_007, lines 21-32) hands it to the tokenizer: if encode throws
\* on it, estimateTokens reads its length and the TypeError leaves the
\* command (encodeThrows); addAssistantMessage replaces it by "".
RECURSIVE replay(_, _, _)
replay(payloads, msgs, encodeThrows) ==
  IF Len(payloads) = 0 THEN Replayed(FALSE, msgs)
  ELSE LET msg == Head(payloads)
           content == IF msg.content = <<>> THEN UndefinedContent ELSE msg.content[1]
       IN  IF msg.role = "system" THEN replay(Tail(payloads), msgs, encodeThrows)
           ELSE IF msg.role = "assistant"
             THEN replay(Tail(payloads),
                         addAssistantMessage(msgs, msg.content,
                                             IF msg.tool_calls = <<>> THEN <<>>
                                             ELSE msg.tool_calls[1]),
                         encodeThrows)
           ELSE IF msg.content = <<>> /\ encodeThrows THEN Replayed(TRUE, msgs)
           ELSE IF msg.role = "user"
             THEN replay(Tail(payloads), addUserMessage(msgs, content), encodeThrows)
           ELSE replay(Tail(payloads),
                       Append(msgs, MessageItem("tool", content, msg.tool_call_id, <<>>)),
                       encodeThrows)

\* What the summarising request of ChatCompactor.compress streams: the text
\* of its MESSAGE_COMPLETE event (<<>> when empty or absent), that event's
\* usage (<<>> when absent), and whether the stream failed.
CompactionStream(summary, reported, error) ==
  [usage |-> reported, error |-> error, summary |-> summary]

\* {summary: null, usage: null}
NoSummary == [usage |-> <<>>, summary |-> <<>>]

\* A failure of the stream does not discard what it had delivered.
compress_ignoresError(msgs, stream) ==
  IF getMessagesLength(msgs) < 3 THEN NoSummary
  ELSE IF stream.summary = <<>> \/ stream.usage = <<>> THEN NoSummary
  ELSE [usage |-> stream.usage, summary |-> stream.summary]

\* ChatCompactor.compress: what it returns when its request streams stream.
\* No request is made for a history of fewer than three messages.
compress(msgs, stream) ==
  IF getMessagesLength(msgs) < 3 THEN NoSummary
  ELSE IF stream.error THEN NoSummary
  ELSE IF stream.summary = <<>> \/ stream.usage = <<>> THEN NoSummary
  ELSE [usage |-> stream.usage, summary |-> stream.summary]

(***************************************************************************)
(* Agent events (src/unnamed/part_010) and the pieces of Agent.agenticLoop *)
(* (src/src/agent/agent.ts)                                                *)
(***************************************************************************)

AgentEvent(type, data) == [type |-> type, data |-> data]
agentStart(message) == AgentEvent("agent_start", message)
agentEnd(response) == AgentEvent("agent_end", response)
textDelta(content) == AgentEvent("text_delta", content)
textComplete(content) == AgentEvent("text_complete", content)
toolCallStart(callId, name) == AgentEvent("tool_call_start", <<callId, name>>)
toolCallComplete(callId, name, result) == AgentEvent("tool_call_complete", <<callId, name, result>>)
agentError(error) == AgentEvent("agent_error", error)

(***************************************************************************)
(* The LLM client: one chatCompletion call and its retries                 *)
(***************************************************************************)

\* LLMClient.maxRetries.
maxRetries == 3

\* A StreamEvent: its type and the one field that type carries.
StreamEvent(type, data) == [type |-> type, data |-> data]
TEXT_DELTA == "text_delta"
MESSAGE_COMPLETE == "message_complete"
ERROR == "error"
TOOL_CALL_START == "tool_call_start"
TOOL_CALL_DELTA == "tool_call_delta"
TOOL_CALL_COMPLETE == "tool_call_complete"

\* What the provider would answer to one attempt: the text, one element per
\* chunk that carries text, the tool calls it asks for, and the usage it
\* reports (<<>> when it reports none).
Reply(text, requests, reported) == [usage |-> reported, text |-> text, requests |-> requests]

\* One attempt as the environment lets it go: the reply, and whether the
\* transport fails: failsAfter is <<>> when the attempt completes, else
\* <<n>> when it throws after the first n events it would yield.
Attempt(reply, failsAfter) == [reply |-> reply, failsAfter |-> failsAfter]

\* The events yielded while the chunks arrive.  The groq stream announces a
\* tool call's name and its argument fragment as they arrive (lines
\* 304-343); the gemini stream yields only the text (lines 193-223).
chunkEvents(provider, reply) ==
  [k \in 1..Len(reply.text) |-> StreamEvent(TEXT_DELTA, <<reply.text[k]>>)]
  \o (IF provider = "groq"
        THEN [k \in 1..(2 * Len(reply.requests)) |->
                IF k % 2 = 1
                  THEN StreamEvent(TOOL_CALL_START, reply.requests[(k + 1) \div 2].name)
                  ELSE StreamEvent(TOOL_CALL_DELTA, reply.requests[k \div 2].arguments)]
        ELSE <<>>)

\* The events yielded once every chunk has arrived: one tool_call_complete
\* per accumulated call, then message_complete with the usage.
completeEvents(reply) ==
  [k \in 1..Len(reply.requests) |-> StreamEvent(TOOL_CALL_COMPLETE, reply.requests[k])]
  \o <<StreamEvent(MESSAGE_COMPLETE, reply.usage)>>

\* streamResponse, lines 276-364, and the streaming branch of
\* chatCompletionGemini, lines 184-231.
streamResponse(provider, reply) == chunkEvents(provider, reply) \o completeEvents(reply)

\* nonStreamResponse, lines 366-401: the single message_complete event.
\* The gemini branch, lines 233-263, yields the calls before it.
nonStreamResponse(provider, reply) ==
  IF provider = "groq" THEN <<StreamEvent(MESSAGE_COMPLETE, reply.usage)>>
  ELSE completeEvents(reply)

\* What one attempt yields before it returns or throws.
attemptEvents(provider, stream, attempt) ==
  LET whole == IF stream THEN streamResponse(provider, attempt.reply)
               ELSE nonStreamResponse(provider, attempt.reply)
      arriving == IF stream THEN chunkEvents(provider, attempt.reply) ELSE <<>>
  IN  IF attempt.failsAfter = <<>> THEN whole
      ELSE IF attempt.failsAfter[1] <= Len(arriving)
        THEN SubSeq(arriving, 1, attempt.failsAfter[1])
      ELSE arriving

\* The retry loop, lines 89-109 and 186-273, from its iteration `attempt`
\* on: a failed attempt is followed by the next one while attempt < cap,
\* and by the error event otherwise.  errorEach also yields the error event
\* after every failed attempt that is retried.
RECURSIVE retryLoop(_, _, _, _, _, _)
retryLoop(provider, stream, attempts, attempt, cap, errorEach) ==
  LET yielded == attemptEvents(provider, stream, attempts[attempt + 1])
  IN  IF attempts[attempt + 1].failsAfter = <<>> THEN yielded
      ELSE IF attempt < cap
        THEN yielded \o (IF errorEach THEN <<StreamEvent(ERROR, "failed")>> ELSE <<>>)
                     \o retryLoop(provider, stream, attempts, attempt + 1, cap, errorEach)
      ELSE Append(yielded, StreamEvent(ERROR, "failed"))

\* Every failed attempt surfaces its own error event.
chatCompletion_errorPerAttempt(provider, stream, attempts) ==
  retryLoop(provider, stream, attempts, 0, maxRetries, TRUE)

\* The first failure is final.
chatCompletion_noRetry(provider, stream, attempts) ==
  retryLoop(provider, stream, attempts, 0, 0, FALSE)

\* chatCompletion, lines 66-110, and chatCompletionGemini, lines 169-274,
\* for a configuration that passed validate(): attempts[k] is how the k-th
\* attempt goes if it is made.
chatCompletion(provider, stream, attempts) ==
  retryLoop(provider, stream, attempts, 0, maxRetries, FALSE)

\* How many attempts a call with these outcomes makes.
RECURSIVE attemptsMade(_, _)
attemptsMade(attempts, attempt) ==
  IF attempts[attempt + 1].failsAfter = <<>> \/ attempt >= maxRetries THEN attempt + 1
  ELSE attemptsMade(attempts, attempt + 1)

\* What agenticLoop has after consuming a stream, lines 97-115: the
\* response text, the completed tool calls, the usage of message_complete,
\* whether an error event came, and the agent events yielded on the way.
Consumed(text, requests, reported, error, yielded) ==
  [usage |-> reported, text |-> text, error |-> error, requests |-> requests,
   yielded |-> yielded]

\* A tool call is collected as soon as its name is announced.
RECURSIVE consume_collectsOnStart(_, _)
consume_collectsOnStart(evs, sofar) ==
  IF Len(evs) = 0 THEN sofar
  ELSE LET event == Head(evs) IN
    consume_collectsOnStart(Tail(evs),
      IF event.type = TEXT_DELTA /\ event.data # <<>>
        THEN [sofar EXCEPT !.text = @ \o event.data,
                           !.yielded = Append(@, AgentEvent("text_delta", event.data))]
      ELSE IF event.type = TOOL_CALL_START
        THEN [sofar EXCEPT !.requests = Append(@, [name |-> event.data, arguments |-> NoArgs])]
      ELSE IF event.type = TOOL_CALL_COMPLETE
        THEN [sofar EXCEPT !.requests = Append(@, event.data)]
      ELSE IF event.type = ERROR
        THEN [sofar EXCEPT !.error = TRUE,
                           !.yielded = Append(@, AgentEvent("agent_error", "stream"))]
      ELSE IF event.type = MESSAGE_COMPLETE
        THEN [sofar EXCEPT !.usage = event.data]
      ELSE sofar)

\* The for-await loop over the stream, lines 97-115.
RECURSIVE consume(_, _)
consume(evs, sofar) ==
  IF Len(evs) = 0 THEN sofar
  ELSE LET event == Head(evs) IN
    consume(Tail(evs),
      IF event.type = TEXT_DELTA /\ event.data # <<>>
        THEN [sofar EXCEPT !.text = @ \o event.data,
                           !.yielded = Append(@, AgentEvent("text_delta", event.data))]
      ELSE IF event.type = TOOL_CALL_COMPLETE
        THEN [sofar EXCEPT !.requests = Append(@, event.data)]
      ELSE IF event.type = ERROR
        THEN [sofar EXCEPT !.error = TRUE,
                           !.yielded = Append(@, AgentEvent("agent_error", "stream"))]
      ELSE IF event.type = MESSAGE_COMPLETE
        THEN [sofar EXCEPT !.usage = event.data]
      ELSE sofar)

\* config.model.contextWindow, the default.
contextWindow == 256000

\* One entry of toolCalls, lines 105-109.
ToolCallRequest(call_id, name, arguments) ==
  [name |-> name, arguments |-> arguments, call_id |-> call_id]

\* The model's text as a message content, one token per character.
ModelText(text) == Content("model", text, Len(text))

\* Lines 161-165: the entry pushed to toolResults.
\* outputTokens is what countTokens gives for a successful result's output.
toolResultEntry(call, result, outputTokens) ==
  [content |-> IF result.success THEN Content("tool_output", <<>>, outputTokens)
               ELSE Content("tool_error", <<>>, 20),
   tool_call_id |-> call.call_id,
   is_error |-> ~result.success]

\* Lines 168-170: every collected result is appended as a tool message.
\* The collected results are appended newest first.
RECURSIVE addToolResults_reversed(_, _)
addToolResults_reversed(msgs, results) ==
  IF Len(results) = 0 THEN msgs
  ELSE addToolResults_reversed(
         addToolResult(msgs, results[Len(results)].tool_call_id, results[Len(results)].content),
         SubSeq(results, 1, Len(results) - 1))

RECURSIVE addToolResults(_, _)
addToolResults(msgs, results) ==
  IF Len(results) = 0 THEN msgs
  ELSE addToolResults(addToolResult(msgs, results[1].tool_call_id, results[1].content),
                      Tail(results))

\* createLoopBreakerPrompt(loopError): the corrective prompt.
createLoopBreakerPrompt(loopError) == Content("loop_breaker", <<>>, 40)

\* The loop-breaker is appended twice.
injectLoopBreaker_twice(msgs, loopError) ==
  IF loopError # NoLoop
    THEN addUserMessage(addUserMessage(msgs, createLoopBreakerPrompt(loopError)),
                        createLoopBreakerPrompt(loopError))
  ELSE msgs

\* Lines 172-176: the loop-breaker message, when checkForLoop reported a loop.
injectLoopBreaker(msgs, loopError) ==
  IF loopError # NoLoop
    THEN addUserMessage(msgs, createLoopBreakerPrompt(loopError))
  ELSE msgs

\* Lines 137-140 and 178-181: usage is <<>> when the stream reported none.
usageAfter(total, reported) == IF reported = <<>> THEN total ELSE addUsage(total, reported[1])
latestAfter(latest, reported) == IF reported = <<>> THEN latest ELSE reported[1]

(***************************************************************************)
(* checkApproval applied to every context of a bounded family              *)
(***************************************************************************)

\* Config.cwd, already resolved (config.ts: path.resolve(options.cwd)).
ConfigCwd == <<"/","w","/","p">>

CmdCustomScript == <<"c","u","s","t","o","m","-","s","c","r","i","p","t",".","s","h">>
CmdLs == <<"l","s"," ","-","l","a">>
CmdGitLog == <<"G","i","t"," "," ","l","o","g">>
CmdCurlBash == <<"c","u","r","l"," ","e","v","i","l",".","s","h"," ","|"," ","b","a","s","h">>
CmdEchoReboot == <<"e","c","h","o"," ","x",";"," ","r","e","b","o","o","t">>
CmdChmod == <<"c","h","m","o","d"," ","-","R"," ","7","7","7"," ",".">>
CmdRmRoot == <<"r","m"," ","-","r","f"," ","/">>
CmdEmpty == <<>>

Commands ==
  {CmdCustomScript, CmdLs, CmdGitLog, CmdCurlBash, CmdEchoReboot, CmdChmod, CmdRmRoot, CmdEmpty}

PathInside == <<"/","w","/","p","/","f">>
PathOutside == <<"/","e","t","c","/","x">>
PathDotDot == <<"/","w","/","p","/",".",".","/","q">>
PathSibling == <<"/","w","/","p","q","/","f">>

AffectedPathLists ==
  {<<>>, <<PathInside>>, <<PathOutside>>, <<PathInside, PathOutside>>,
   <<PathDotDot>>, <<PathSibling>>}

ApprovalContexts ==
  {ApprovalContext(m, paths, cmd, d) :
     m \in BOOLEAN, paths \in AffectedPathLists,
     cmd \in {<<>>} \cup {<<c>> : c \in Commands}, d \in BOOLEAN}

\* The approval variables before any checkApproval call.
ApprovalIdle ==
  /\ apPolicy = ON_REQUEST
  /\ apContext = NoContext
  /\ apDecision = "none"

\* The loop detector as constructed.
LoopIdle ==
  /\ history = <<>>
  /\ recorded = <<>>
  /\ ret = [n |-> 0, kind |-> "void"]

\* The registry before any invoke call.
RegistryIdle ==
  /\ rgCall = <<>>
  /\ rgOutcome = <<>>
  /\ allowedTools = <<>>

\* The locals of SubagentTool.execute (lines 67-70) with the call's
\* position (idle, running, ended), the name of its definition, the clock
\* and deadline in seconds, the nested run's generator, the events it has
\* yielded, the deadline checks made and the ToolResults it resolved to.
SubagentCall(pc, name, now, deadline, nested, yielded, checks, called, final, error, term, res) ==
  [toolCalls |-> called, error |-> error, run |-> nested, yielded |-> yielded, pc |-> pc,
   now |-> now, deadline |-> deadline, checks |-> checks,
   definition |-> name, finalResponse |-> final, termination |-> term, resolved |-> res]

\* No subagent call has been made.
NoSubagent == SubagentCall("idle", "", 0, 0, <<>>, 0, 0, <<>>, <<>>, <<>>, "goal", <<>>)

\* A session on which no run has started, with the default maxTurns.
AgentIdle ==
  /\ subagent = NoSubagent
  /\ agPc = "idle"
  /\ maxTurns = 100
  /\ turn = 0
  /\ turnCount = 0
  /\ messages = <<>>
  /\ latestUsage = ZeroUsage
  /\ totalUsage = ZeroUsage
  /\ events = <<>>
  /\ toolCalls = <<>>
  /\ toolResults = <<>>
  /\ usage = <<>>
  /\ responses = <<>>
  /\ compactions = <<>>
  /\ cmOps = <<"none", "none">>
  /\ cmRet = 0
  /\ cmResumed = "none"
  /\ autoplan = FALSE
  /\ planning = <<>>

\* A client on which chatCompletion has not been called directly.
ClientIdle ==
  /\ clRequest = <<>>
  /\ clStream = <<>>

\* An empty working directory on which no file tool has been called.
FilesIdle ==
  /\ files = <<>>
  /\ fsOp = <<>>

\* new ApprovalManager(policy, cwd): any policy may be configured.  The
\* context is the one the next checkApproval call is made with.
ApprovalInit ==
  /\ apPolicy \in ApprovalPolicy
  /\ apContext \in ApprovalContexts
  /\ apDecision = "none"
  /\ LoopIdle
  /\ RegistryIdle
  /\ AgentIdle
  /\ FilesIdle
  /\ ClientIdle

\* A caller prepares the context of its next checkApproval call.
PrepareContext(context) ==
  /\ apContext' = context
  /\ apDecision' = "none"
  /\ UNCHANGED <<apPolicy, loopVars, rgVars, agVars, clVars, fsVars>>

CheckApproval ==
  /\ apDecision = "none"
  /\ apDecision' = checkApproval(apPolicy, ConfigCwd, apContext)
  /\ UNCHANGED <<apPolicy, apContext, loopVars, rgVars, agVars, clVars, fsVars>>

ApprovalNext ==
  \/ \E context \in ApprovalContexts : PrepareContext(context)
  \/ CheckApproval

SpecApproval == ApprovalInit /\ [][ApprovalNext]_vars


(***************************************************************************)
(* Properties of the approval manager                                      *)
(***************************************************************************)

\* checkApproval has returned for a mutating action that carries a command.
CommandActionChecked ==
  /\ apDecision # "none"
  /\ apContext.isMutating
  /\ HasCommand(apContext)

CheckedCommand == apContext.command[1]

\* The directory tree's notion of containment: the resolved path is the
\* working directory or lies beneath it, segment by segment.
ResolvedSegments(path) == NormalizeSegments(SplitPath(PathResolve(path), <<>>), <<>>)

LiesWithin(path, dir) ==
  LET p == ResolvedSegments(path)
      d == ResolvedSegments(dir)
  IN  Len(p) >= Len(d) /\ SubSeq(p, 1, Len(d)) = d

\* C3 as stated: under on-request or auto-edit, a mutating command action
\* whose command matches neither pattern set yields needs-confirmation, and
\* one whose command matches only a safe pattern yields approved.
C3_AsStated ==
  CommandActionChecked /\ apPolicy \in {ON_REQUEST, AUTO_EDIT} /\ ~isDangerousCommand(CheckedCommand)
    => apDecision = IF isSafeCommand(CheckedCommand) THEN APPROVED ELSE NEEDS_CONFIRMATION

C5_AsStated ==
  /\ apDecision # "none"
  /\ apPolicy # YOLO
  /\ apContext.isMutating
  /\ \E k \in 1..Len(apContext.affectedPaths) : ~LiesWithin(apContext.affectedPaths[k], ConfigCwd)
  => apDecision = NEEDS_CONFIRMATION

\* C6 as stated: a (mutating) action flagged dangerous by its confirmation
\* descriptor is never approved unless the policy is yolo.
C6_AsStated ==
  /\ apDecision # "none"
  /\ apPolicy # YOLO
  /\ apContext.isMutating
  /\ apContext.isDangerous
  => apDecision # APPROVED

\* C38 as stated: when checkApproval comes to the affected paths (a
\* mutating context whose command, if any, needs confirmation), a path
\* that resolves neither to cwd nor beneath it is outside, and the
\* decision is needs-confirmation; sharing cwd's characters as a string
\* prefix does not make a path inside.
C38_AsStated ==
  (/\ apDecision # "none"
   /\ apContext.isMutating
   /\ HasCommand(apContext) =>
        assessCommandSafety(apPolicy, apContext.command[1]) = NEEDS_CONFIRMATION
   /\ \E k \in 1..Len(apContext.affectedPaths) :
        /\ PathResolve(apContext.affectedPaths[k]) # PathResolve(ConfigCwd)
        /\ ~StartsWith(PathResolve(apContext.affectedPaths[k]),
                       PathResolve(ConfigCwd) \o <<"/">>))
    => apDecision = NEEDS_CONFIRMATION

\* A mutating call on /w/pq/f, a sibling of the working directory /w/p,
\* has been approved without confirmation.
C38_SiblingApproved ==
  /\ apContext.isMutating
  /\ apContext.command = <<>>
  /\ apContext.affectedPaths = <<PathSibling>>
  /\ ~apContext.isDangerous
  /\ apDecision = APPROVED

(***************************************************************************)
(* The loop detector driven directly: recordAction, checkForLoop, clear    *)
(***************************************************************************)

\* Bounds of the exploration: the first FreeRecords calls of recordAction take
\* any of LoopInputs, later calls (up to MaxRecords) repeat FillerInput.
FreeRecords == 6
MaxRecords == 22

VoidReturn == [n |-> 0, kind |-> "void"]

ToolCallInput ==
  [actionType |-> TOOL_CALL,
   details |-> Details(<< <<"x">> >>,
                       << ArgsObject({<<"b">>, <<"a">>},
                                     [k \in {<<"b">>, <<"a">>} |->
                                        IF k = <<"a">> THEN JsNum(1) ELSE JsStr(<<"x">>)]) >>,
                       <<>>)]
ResponseInputX ==
  [actionType |-> RESPONSE,
   details |-> Details(<<>>, <<>>, << <<"a",",","r","e","s","p","o","n","s","e","|">> >>)]
ResponseInputY ==
  [actionType |-> RESPONSE,
   details |-> Details(<<>>, <<>>, << <<",","r","e","s","p","o","n","s","e","|","a">> >>)]
ResponseInputZ ==
  [actionType |-> RESPONSE, details |-> Details(<<>>, <<>>, <<>>)]

LoopInputs == {ToolCallInput, ResponseInputX, ResponseInputY, ResponseInputZ}
FillerInput == ResponseInputZ

LoopInit ==
  /\ history = <<>>
  /\ recorded = <<>>
  /\ ret = VoidReturn
  /\ ApprovalIdle
  /\ RegistryIdle
  /\ AgentIdle
  /\ FilesIdle
  /\ ClientIdle

RecordAction(input) ==
  LET signature == signatureOf(input.actionType, input.details)
  IN  /\ Len(recorded) < MaxRecords
      /\ Len(recorded) < FreeRecords \/ input = FillerInput
      /\ history' = pushSignature(history, signature)
      /\ recorded' = Append(recorded, signature)
      /\ ret' = VoidReturn
      /\ UNCHANGED <<apVars, rgVars, agVars, clVars, fsVars>>

CheckForLoop ==
  /\ ret' = checkForLoop(history)
  /\ UNCHANGED <<history, recorded>>
  /\ UNCHANGED <<apVars, rgVars, agVars, clVars, fsVars>>

Clear ==
  /\ history' = <<>>
  /\ recorded' = <<>>
  /\ ret' = VoidReturn
  /\ UNCHANGED <<apVars, rgVars, agVars, clVars, fsVars>>

LoopNext ==
  \/ \E input \in LoopInputs : RecordAction(input)
  \/ CheckForLoop
  \/ Clear

SpecLoop == LoopInit /\ [][LoopNext]_vars

(***************************************************************************)
(* Properties of the loop detector                                         *)
(***************************************************************************)

\* The signatures of the most recent n calls of recordAction are all the same.
LastRecordedIdentical(n) ==
  /\ Len(recorded) >= n
  /\ \A i \in 1..n : recorded[Len(recorded) - i + 1] = recorded[Len(recorded)]

\* The most recent 2L entries of the history split into two equal halves.
HalvesEqual(hist, L) ==
  /\ Len(hist) >= 2 * L
  /\ \A i \in 1..L : hist[Len(hist) - 2 * L + i] = hist[Len(hist) - L + i]

\* C7: whenever the three most recently recorded signatures are identical,
\* checkForLoop reports a repeated action.
C7_ExactRepeatReported ==
  LastRecordedIdentical(3) => checkForLoop(history) = RepeatedAction(3)

\* C7 witness: the same tool call (same name, same sorted arguments) was
\* recorded three times in a row and checkForLoop returned the repeat.
C7_Witness ==
  /\ LastRecordedIdentical(3)
  /\ recorded[Len(recorded)] = signatureOf(ToolCallInput.actionType, ToolCallInput.details)
  /\ ret = RepeatedAction(3)

C9_SlidingWindow ==
  /\ Len(history) <= 20
  /\ Len(history) = Min(Len(recorded), 20)
  /\ history = SliceLast(recorded, Min(Len(recorded), 20))

\* C9 witness: more than 20 signatures were recorded and the oldest ones,
\* which differ from what is retained, have been evicted.
C9_Witness ==
  /\ Len(recorded) > 20
  /\ Len(history) = 20
  /\ recorded[1] # history[1]
  /\ history[20] = recorded[Len(recorded)]

\* C39 as stated: checkForLoop reports a repeating cycle of length L only
\* when the last L signatures are, one by one, the L signatures before
\* them; halves that differ in some signature give no cycle report,
\* whatever characters the signatures hold.
C39_AsStated ==
  ret.kind = "cycle" => HalvesEqual(history, ret.n)

\* A cycle has been reported for halves that differ in a signature and
\* are equal only once joined with commas.
C39_DifferentHalvesReported ==
  /\ ret.kind = "cycle"
  /\ Len(history) >= 2 * ret.n
  /\ \E i \in 1..ret.n :
       history[Len(history) - 2 * ret.n + i] # history[Len(history) - ret.n + i]
  /\ Join(SubSeq(history, Len(history) - 2 * ret.n + 1, Len(history) - ret.n), <<",">>)
       = Join(SubSeq(history, Len(history) - ret.n + 1, Len(history)), <<",">>)

(***************************************************************************)
(* ToolRegistry.invoke applied to every call of a bounded family           *)
(***************************************************************************)

UnknownName == <<"n","o","p","e">>
PathRelative == <<"s","u","b">>
ActionList == <<"l","i","s","t">>
NotAString == JsNum(123)

\* {field: value}.
OneParam(field, value) == ArgsObject({field}, [k \in {field} |-> value])

\* The parameter objects a model may send with each tool name.
ParamsFor(name) ==
  {NoArgs} \cup
  (IF name = ShellName
     THEN {OneParam(CommandField, v) : v \in {NotAString, JsNull} \cup {JsStr(c) : c \in Commands}}
   ELSE IF name = MakeDirName
     THEN {OneParam(PathField, v) :
             v \in {NotAString} \cup
                   {JsStr(p) : p \in {PathInside, PathOutside, PathDotDot, PathSibling, PathRelative}}}
   ELSE IF name = ListDirName THEN {OneParam(PathField, JsStr(PathInside))}
   ELSE IF name = MemoryName THEN {OneParam(ActionField, JsStr(ActionList))}
   ELSE {})

\* One call of invoke: its arguments, and the environment it runs in (how
\* tool.execute ends, and what the user answers when asked).
ToolCall(name, params, withManager, confirmationCallback, env) ==
  [params |-> params, name |-> name, env |-> env,
   confirmationCallback |-> confirmationCallback, withManager |-> withManager]

RegisteredNames == {ShellName, MakeDirName, ListDirName, MemoryName}

ToolCalls ==
  {ToolCall(c[1], c[2], m[1], m[2], env) :
     c \in UNION {{<<name, params>> : params \in ParamsFor(name)} :
                    name \in RegisteredNames \cup {UnknownName}},
     m \in {<<FALSE, <<>> >>, <<TRUE, <<>> >>, <<TRUE, <<TRUE>> >>, <<TRUE, <<FALSE>> >>},
     env \in {"success", "failure", "throw"}}

\* Config.allowedTools as configured: null, an empty list, or the read-only
\* restriction of a subagent.
AllowedToolsSettings == {<<>>, << <<>> >>, << <<ListDirName>> >>}

\* The session's ApprovalManager as the call receives it.
ManagerOf(call) ==
  IF call.withManager
    THEN <<ApprovalManager(apPolicy, ConfigCwd, call.confirmationCallback)>>
  ELSE <<>>

\* A registry over a session with any approval policy; the call about to
\* be made is any of the family.
RegistryInit ==
  /\ apPolicy \in ApprovalPolicy
  /\ apContext = NoContext
  /\ apDecision = "none"
  /\ rgCall \in ToolCalls
  /\ rgOutcome = <<>>
  /\ allowedTools \in AllowedToolsSettings
  /\ LoopIdle
  /\ AgentIdle
  /\ FilesIdle
  /\ ClientIdle

\* The caller chooses its next call once the previous one has ended.
PrepareCall(call) ==
  /\ rgOutcome # <<>>
  /\ rgCall' = call
  /\ rgOutcome' = <<>>
  /\ UNCHANGED <<apVars, allowedTools, loopVars, agVars, clVars, fsVars>>

\* One whole invoke call; apContext and apDecision record the approval
\* check it made, if any.
Invoke ==
  /\ rgOutcome = <<>>
  /\ \E outcome \in {invoke(rgCall.name, rgCall.params, ConfigCwd, ManagerOf(rgCall), rgCall.env)} :
       /\ rgOutcome' = <<outcome>>
       /\ apContext' = outcome.context
       /\ apDecision' = outcome.decision
  /\ UNCHANGED <<apPolicy, rgCall, allowedTools, loopVars, agVars, clVars, fsVars>>

RegistryNext ==
  \/ \E call \in ToolCalls : PrepareCall(call)
  \/ Invoke

SpecRegistry == RegistryInit /\ [][RegistryNext]_vars

(***************************************************************************)
(* Properties of the registry                                              *)
(***************************************************************************)

\* C2 as stated: every invoke call ends with the after-tool hook triggered
\* exactly once and a ToolResult returned, whichever way the call ended; no
\* exception escapes invoke.
C2_AsStated ==
  rgOutcome # <<>> =>
    /\ rgOutcome[1].afterTool = 1
    /\ ~rgOutcome[1].threw
    /\ rgOutcome[1].result # <<>>

C34_AsStated ==
  (/\ rgOutcome # <<>>
   /\ getTools(allowedTools) # tools
   /\ get(rgCall.name) # <<>>
   /\ get(rgCall.name)[1] \notin getTools(allowedTools))
    => /\ rgOutcome[1].executed = 0
       /\ rgOutcome[1].result # <<>>
       /\ ~rgOutcome[1].result[1].success

\* With only list_dir allowed, a shell call has been executed and has
\* returned its success.
C34_DisallowedExecuted ==
  /\ rgOutcome # <<>>
  /\ allowedTools = << <<ListDirName>> >>
  /\ rgCall.name = ShellName
  /\ rgOutcome[1].executed = 1
  /\ rgOutcome[1].result # <<>>
  /\ rgOutcome[1].result[1].success

\* A call that needed confirmation has executed although the session's
\* approval manager has no confirmation callback to ask.
C26_ExecutedUnasked ==
  /\ rgOutcome # <<>>
  /\ rgOutcome[1].decision = NEEDS_CONFIRMATION
  /\ rgOutcome[1].executed = 1
  /\ rgCall.withManager
  /\ rgCall.confirmationCallback = <<>>

(***************************************************************************)
(* Agent.run over a bounded family of model responses                      *)
(***************************************************************************)

\* The largest configured maxTurns explored.
MaxTurns == 3

UserPrompt == Content("user", <<>>, 10)
NormalUsage == TokenUsage(100, 20, 120, 0)
HugeUsage == TokenUsage(250000, 1000, 251000, 0)
SummaryContent == Content("summary", <<>>, 50)

\* What the model asks for: a tool name and its arguments.
ReqLs == [name |-> ShellName, arguments |-> OneParam(CommandField, JsStr(CmdLs))]
ReqBadShell == [name |-> ShellName, arguments |-> OneParam(CommandField, NotAString)]
ReqUnknown == [name |-> UnknownName, arguments |-> NoArgs]
ReqGitLog == [name |-> ShellName, arguments |-> OneParam(CommandField, JsStr(CmdGitLog))]
ReqRmRoot == [name |-> ShellName, arguments |-> OneParam(CommandField, JsStr(CmdRmRoot))]

\* What countTokens gives for a tool's output in the environment explored:
\* the git log is long, every other output is short.
OutputTokensOf(call) ==
  IF call.arguments = ReqGitLog.arguments THEN 30000 ELSE 200

\* How a tool's execute may end in the environment explored: listing the
\* directory always works, reading the git log may fail.
Environments(call) ==
  IF call.arguments = ReqGitLog.arguments THEN {"success", "failure"} ELSE {"success"}

Batches ==
  {<<>>, <<ReqLs>>, <<ReqLs, ReqLs>>, <<ReqGitLog>>, <<ReqLs, ReqBadShell>>, <<ReqRmRoot>>}

\* The session's provider: the one whose stream announces tool calls.
Provider == "groq"

\* One model response as agenticLoop receives it: how the attempts of the
\* request go, the stream chatCompletion yields for them, and what the loop
\* has once it has consumed that stream.
Response(attempts) ==
  LET stream == chatCompletion(Provider, TRUE, attempts)
      consumed == consume(stream, Consumed(<<>>, <<>>, <<>>, FALSE, <<>>))
  IN  [usage |-> consumed.usage, text |-> consumed.text, error |-> consumed.error,
       stream |-> stream, requests |-> consumed.requests, attempts |-> attempts,
       yielded |-> consumed.yielded]

\* The first `failures` attempts fail after yielding n events, the others
\* complete.
Failing(failures, reply, n) ==
  [k \in 1..(maxRetries + 1) |-> Attempt(reply, IF k <= failures THEN <<n>> ELSE <<>>)]

\* A usage of exactly 80% of the context window.
ThresholdUsage == TokenUsage(204000, 800, 204800, 0)

\* The responses explored: requests that succeed at once, with and without
\* text, tool calls and usage; a request whose every attempt fails after
\* announcing a tool call and its arguments; and a request for text and a
\* tool call that succeeds on its last attempt after three attempts that
\* failed once the text and the call's arguments had arrived.
Responses ==
  {Response(Failing(0, Reply(<<>>, batch, <<NormalUsage>>), 0)) : batch \in Batches}
  \cup {Response(Failing(0, Reply(<<"T">>, <<>>, <<NormalUsage>>), 0)),
        Response(Failing(maxRetries + 1, Reply(<<>>, <<ReqLs>>, <<NormalUsage>>), 2)),
        Response(Failing(maxRetries, Reply(<<"T">>, <<ReqLs>>, <<NormalUsage>>), 3)),
        Response(Failing(0, Reply(<<"T">>, <<>>, <<>>), 0)),
        Response(Failing(0, Reply(<<>>, <<ReqLs>>, <<HugeUsage>>), 0)),
        Response(Failing(0, Reply(<<>>, <<ReqLs>>, <<ThresholdUsage>>), 0))}

\* What the summarising request of ChatCompactor.compress may stream: a
\* summary with its usage, an empty text with its usage, a summary without
\* usage, and a failed stream.
CompactionStreams ==
  {CompactionStream(<<SummaryContent>>, <<NormalUsage>>, FALSE),
   CompactionStream(<<>>, <<NormalUsage>>, FALSE),
   CompactionStream(<<SummaryContent>>, <<>>, FALSE),
   CompactionStream(<<>>, <<>>, TRUE),
   CompactionStream(<<SummaryContent>>, <<NormalUsage>>, TRUE)}

\* The call ids of the requests of one response: the turn and the position.
withCallIds(requests, turnNumber) ==
  [k \in 1..Len(requests) |->
     ToolCallRequest(<<turnNumber, k>>, requests[k].name, requests[k].arguments)]

(***************************************************************************)
(* Subagents: SubagentTool.execute and the nested run it consumes          *)
(* (src/src/tools/subagents.ts lines 1-141)                                *)
(***************************************************************************)

GoalField == <<"g","o","a","l">>

\* A SubagentDefinition; maxTurns and timeoutSeconds may be absent.
SubagentDefinition(name, definedMaxTurns, timeoutSeconds) ==
  [maxTurns |-> definedMaxTurns, name |-> name, timeoutSeconds |-> timeoutSeconds]

CODEBASE_INVESTIGATOR ==
  SubagentDefinition(<<"c","o","d","e","b","a","s","e","_","i","n","v","e","s","t","i","g","a",
                       "t","o","r">>, <<>>, <<>>)
CODE_REVIEWER ==
  SubagentDefinition(<<"c","o","d","e","_","r","e","v","i","e","w","e","r">>, <<10>>, <<300>>)

getDefaultSubagentDefinitions == {CODEBASE_INVESTIGATOR, CODE_REVIEWER}

\* SubagentTool.name.
subagentName(definition) == <<"s","u","b","a","g","e","n","t","_">> \o definition.name

\* The SubagentTool createDefaultRegistry registers for a definition: goal
\* is required and isMutating() is true.
SubagentTool(definition) == ToolDef(subagentName(definition), "subagent", <<GoalField>>, "base")

\* The definition of the subagent tool of that name, <<>> if there is none.
subagentOf(name) ==
  IF \E d \in getDefaultSubagentDefinitions : subagentName(d) = name
    THEN <<CHOOSE d \in getDefaultSubagentDefinitions : subagentName(d) = name>>
  ELSE <<>>

\* ToolRegistry.invoke for a subagent tool up to the call of execute:
\* <<>> when execute is entered, else the error result invoke returns.
\* The tool is mutating and has the base confirmation, without command or
\* paths.
subagentGate(definition, params, manager) ==
  IF validateParams(SubagentTool(definition), params) # <<>>
    THEN <<ToolResultError("Invalid parameters")>>
  ELSE LET decision == checkApproval(manager.approvalPolicy, manager.cwd,
                                     ApprovalContext(TRUE, <<>>, <<>>, FALSE))
       IN  IF decision = REJECTED THEN <<ToolResultError("Operation rejected by safety policy")>>
           ELSE IF decision = NEEDS_CONFIRMATION
                   /\ ~requestConfirmation(manager.confirmationCallback)
             THEN <<ToolResultError("User rejected the operation")>>
           ELSE <<>>

\* new Session(config): the constructor creates no context manager;
\* initialize() does.
Session(initialized) == [contextManager |-> IF initialized THEN <<"ContextManager">> ELSE <<>>]

\* new Agent(config): a session that has not been initialized.
Agent == [session |-> Session(FALSE)]

\* The generator agent.run(message): the events it will yield and whether
\* it then throws.  Without a context manager the statement after the
\* first yield throws a TypeError; otherwise the run goes on as the rest
\* says.
run(agent, message, rest) ==
  IF agent.session.contextManager = <<>>
    THEN [events |-> <<agentStart(message)>>, done |-> FALSE, throws |-> TRUE]
  ELSE [events |-> <<agentStart(message)>> \o rest, done |-> FALSE, throws |-> FALSE]

\* The prompt a subagent run starts with.
SubagentPrompt == Content("subagent", <<>>, 120)

\* How a nested run may go on after agent_start: an answer, a tool call
\* and an answer, a failed model request.
NestedRuns ==
  {<<textComplete(<<"T">>), agentEnd(<<"T">>)>>,
   <<toolCallStart(<<1, 1>>, ListDirName), toolCallComplete(<<1, 1>>, ListDirName,
                                                            ToolResultSuccess),
     textComplete(<<"T">>), agentEnd(<<"T">>)>>,
   <<agentError("request"), agentEnd(<<>>)>>}

\* The seconds that may pass between two reads of the clock.
Elapsed == {0, 301, 601}

\* The deadline check without effect.
consumeEvent_ignoresDeadline(call, event) ==
  [call EXCEPT !.checks = call.checks + 1]

\* One iteration of the for-await body, lines 77-105, on the locals of the
\* call; pc becomes "ended" where the body breaks.
consumeEvent(call, event) ==
  IF call.now > call.deadline
    THEN [call EXCEPT !.checks = call.checks + 1, !.termination = "timeout",
                      !.finalResponse = <<"Sub-agent timed out">>, !.pc = "ended"]
  ELSE LET checked == [call EXCEPT !.checks = call.checks + 1]
           started == IF event.type = "tool_call_start" /\ event.data[2] # <<>>
                        THEN [checked EXCEPT !.toolCalls = Append(checked.toolCalls,
                                                                 event.data[2])]
                      ELSE checked
           texted == IF event.type = "text_complete"
                       THEN [started EXCEPT !.finalResponse = <<event.data>>]
                     ELSE started
           final == IF event.type = "agent_end" /\ texted.finalResponse \in {<<>>, << <<>> >>}
                      THEN [texted EXCEPT !.finalResponse = <<event.data>>]
                    ELSE texted
       IN  IF event.type = "agent_error"
             THEN [final EXCEPT !.termination = "error", !.error = <<event.data>>,
                                !.finalResponse = <<"Sub-agent error">>, !.pc = "ended"]
           ELSE final

\* The catch block, lines 107-111.
caught(call) ==
  [call EXCEPT !.termination = "error", !.error = <<"TypeError">>,
               !.finalResponse = <<"Sub-agent failed">>, !.pc = "ended"]

\* Lines 113-119: the result text's parts and the ToolResult.
subagentResult(call) ==
  [toolCalls |-> call.toolCalls,
   result |-> IF call.error # <<>> THEN ToolResultError("Sub-agent completed")
              ELSE ToolResultSuccess,
   finalResponse |-> call.finalResponse,
   termination |-> call.termination]

\* An initialized session with the default approval policy, whose
\* configuration has one of the given turn limits and autoplan settings; no
\* run has started.
SessionInit(turnLimits, settings) ==
  /\ maxTurns \in turnLimits
  /\ autoplan \in settings
  /\ planning = <<>>
  /\ subagent = NoSubagent
  /\ agPc = "idle"
  /\ turn = 0
  /\ turnCount = 0
  /\ messages = <<>>
  /\ latestUsage = ZeroUsage
  /\ totalUsage = ZeroUsage
  /\ events = <<>>
  /\ toolCalls = <<>>
  /\ toolResults = <<>>
  /\ usage = <<>>
  /\ responses = <<>>
  /\ compactions = <<>>
  /\ cmOps = <<"none", "none">>
  /\ cmRet = 0
  /\ cmResumed = "none"
  /\ clRequest = <<>>
  /\ clStream = <<>>
  /\ FilesIdle
  /\ LoopIdle
  /\ ApprovalIdle
  /\ RegistryIdle

\* A session of any maxTurns up to the bound, without the autoplan setting.
AgentInit == SessionInit(0..MaxTurns, {FALSE})

\* The options the Config constructor copies, part_000 lines 82-109; the
\* loader's normalizeConfig passes no others.
ConfigFields ==
  {"provider", "model", "cwd", "shellEnvironment", "hooksEnabled", "hooks", "approval",
   "maxTurns", "mcpServers", "allowedTools", "developerInstructions", "userInstructions",
   "debug"}

\* this.config[field] for a Config built from the configuration file's
\* settings: <<>> (undefined) for a field the constructor does not set.
configField(settings, field) ==
  IF field \in ConfigFields /\ field \in DOMAIN settings THEN <<settings[field]>> ELSE <<>>

\* What the planning request may give: a plan, or none (an error event or
\* a blank text).
PlanContent == Content("plan", <<>>, 40)
PlanReplies == {<<>>, <<PlanContent>>}

\* generatePlan, lines 45-73: null on an error event or a blank text, else
\* the trimmed text of message_complete behind "Plan:".
generatePlan(planReply) == planReply

\* Agent.run up to the first iteration of agenticLoop, lines 19-32.  The
\* user sends the first message, and a second one after a run whose first
\* model request failed, while the session has turns left to explore.
StartRun(planReply) ==
  /\ agPc \in {"idle", "done"}
  /\ agPc = "done" => (Len(responses) = 1 /\ responses[1].error /\ turnCount < MaxTurns)
  /\ LET started == addUserMessage(messages, UserPrompt)
         enabled == configField([maxTurns |-> maxTurns, autoplan |-> autoplan], "autoplan")
         plan == generatePlan(planReply)
     IN  IF enabled = <<TRUE>>
           THEN /\ planning' = Append(planning, planReply)
                /\ messages' = IF plan # <<>> THEN addAssistantMessage(started, plan, <<>>)
                               ELSE started
                /\ events' = Append(events, agentStart(UserPrompt))
                             \o (IF plan # <<>> THEN <<textComplete(plan[1])>> ELSE <<>>)
           ELSE /\ planning' = planning
                /\ messages' = started
                /\ events' = Append(events, agentStart(UserPrompt))
  /\ turn' = 0
  /\ agPc' = "loop"
  /\ UNCHANGED <<maxTurns, turnCount, latestUsage, totalUsage, toolCalls, toolResults, usage,
                 responses, compactions, loopVars, apVars, rgVars, cmVars, clVars, fsVars,
                 autoplan, subagent>>

\* The head of one iteration of agenticLoop: lines 78-91.  stream is what
\* the summarising request gives; compress is called only when the context
\* needs compression, and makes its request only for a history of at least
\* three messages.
BeginTurn(stream) ==
  /\ agPc = "loop"
  /\ turn < maxTurns
  /\ turnCount < MaxTurns
  /\ turnCount' = turnCount + 1
  /\ IF needsCompression(latestUsage, contextWindow)
       THEN \E compacted \in {compress(messages, stream)} :
              /\ compactions' = Append(compactions,
                                       [result |-> compacted,
                                        stream |-> IF getMessagesLength(messages) < 3 THEN <<>>
                                                   ELSE <<stream>>])
              /\ IF compacted.summary # <<>>
                   THEN /\ messages' = replaceWithSummary(compacted.summary[1])
                        /\ latestUsage' = latestAfter(latestUsage, compacted.usage)
                        /\ totalUsage' = usageAfter(totalUsage, compacted.usage)
                   ELSE UNCHANGED <<messages, latestUsage, totalUsage>>
       ELSE /\ stream = CompactionStream(<<>>, <<>>, TRUE)
            /\ UNCHANGED <<compactions, messages, latestUsage, totalUsage>>
  /\ agPc' = "request"
  /\ UNCHANGED <<maxTurns, turn, events, toolCalls, toolResults, usage, responses,
                 loopVars, apVars, rgVars, cmVars, clVars, fsVars, plVars, subagent>>

\* The model request of the iteration, and the return when the response
\* completed no tool call: lines 93-143.
Request(response) ==
  /\ agPc = "request"
  /\ LET calls == withCallIds(response.requests, turnCount)
         hasText == response.text # <<>>
         streamed == response.yielded
         msgs1 == addAssistantMessage(messages,
                                      IF hasText THEN <<ModelText(response.text)>> ELSE <<>>,
                                      calls)
         signature == signatureOf(RESPONSE, Details(<<>>, <<>>, <<response.text>>))
     IN  /\ responses' = Append(responses, response)
         /\ events' = events \o streamed
                      \o (IF hasText THEN <<textComplete(response.text)>> ELSE <<>>)
         /\ IF hasText
              THEN /\ history' = pushSignature(history, signature)
                   /\ recorded' = Append(recorded, signature)
                   /\ ret' = VoidReturn
              ELSE UNCHANGED loopVars
         /\ toolCalls' = calls
         /\ toolResults' = <<>>
         /\ usage' = response.usage
         /\ IF Len(calls) = 0
              THEN /\ latestUsage' = latestAfter(latestUsage, response.usage)
                   /\ totalUsage' = usageAfter(totalUsage, response.usage)
                   /\ messages' = pruneToolOutputs(msgs1)
                   /\ agPc' = "ending"
              ELSE /\ UNCHANGED <<latestUsage, totalUsage>>
                   /\ messages' = msgs1
                   /\ agPc' = "tools"
  /\ UNCHANGED <<maxTurns, turn, turnCount, compactions, apVars, rgVars, cmVars, clVars,
                 fsVars, plVars, subagent>>

\* The body of the loop over toolCalls for the next call: lines 148-165.
\* A call of a subagent tool takes the steps of SubagentStart and after.
\* An exception escaping invoke leaves the generator, and so leaves run.
DispatchTool(env) ==
  /\ agPc = "tools"
  /\ Len(toolResults) < Len(toolCalls)
  /\ subagentOf(toolCalls[Len(toolResults) + 1].name) = <<>>
  /\ env \in Environments(toolCalls[Len(toolResults) + 1])
  /\ LET call == toolCalls[Len(toolResults) + 1]
         signature == signatureOf(TOOL_CALL, Details(<<call.name>>, <<call.arguments>>, <<>>))
         manager == ApprovalManager(apPolicy, ConfigCwd, <<>>)
     IN  \E outcome \in {invoke(call.name, call.arguments, ConfigCwd, <<manager>>, env)} :
         /\ history' = pushSignature(history, signature)
         /\ recorded' = Append(recorded, signature)
         /\ ret' = VoidReturn
         /\ rgCall' = ToolCall(call.name, call.arguments, TRUE, <<>>, env)
         /\ rgOutcome' = <<outcome>>
         /\ apContext' = outcome.context
         /\ apDecision' = outcome.decision
         /\ IF outcome.threw
              THEN /\ events' = Append(events, toolCallStart(call.call_id, call.name))
                   /\ agPc' = "thrown"
                   /\ UNCHANGED toolResults
              ELSE /\ events' = events \o <<toolCallStart(call.call_id, call.name),
                                            toolCallComplete(call.call_id, call.name,
                                                             outcome.result[1])>>
                   /\ toolResults' = Append(toolResults,
                                          toolResultEntry(call, outcome.result[1],
                                                          OutputTokensOf(call)))
                   /\ UNCHANGED agPc
  /\ UNCHANGED <<maxTurns, turn, turnCount, messages, latestUsage, totalUsage, toolCalls, usage,
                 responses, compactions, apPolicy, allowedTools, cmVars, clVars, fsVars, plVars,
                 subagent>>

\* The rest of the iteration once every call of the batch has a result:
\* lines 168-184, and the loop's turn += 1.
FinishBatch ==
  /\ agPc = "tools"
  /\ Len(toolResults) = Len(toolCalls)
  /\ LET loopError == checkForLoop(history)
     IN  /\ ret' = loopError
         /\ messages' = pruneToolOutputs(
                          injectLoopBreaker(addToolResults(messages, toolResults), loopError))
  /\ latestUsage' = latestAfter(latestUsage, usage)
  /\ totalUsage' = usageAfter(totalUsage, usage)
  /\ turn' = turn + 1
  /\ agPc' = "loop"
  /\ UNCHANGED <<maxTurns, turnCount, events, toolCalls, toolResults, usage, responses,
                 compactions, history, recorded, apVars, rgVars, cmVars, clVars, fsVars, plVars, subagent>>

\* The loop's condition fails: line 186.
LimitReached ==
  /\ agPc = "loop"
  /\ ~(turn < maxTurns)
  /\ events' = Append(events, agentError(<<"Maximum turns reached", maxTurns>>))
  /\ agPc' = "ending"
  /\ UNCHANGED <<maxTurns, turn, turnCount, messages, latestUsage, totalUsage, toolCalls,
                 toolResults, usage, responses, compactions, loopVars, apVars, rgVars,
                 cmVars, clVars, fsVars, plVars, subagent>>

\* The index of the last agent_start event, 0 when there is none.
RECURSIVE lastStart(_)
lastStart(evs) ==
  IF Len(evs) = 0 THEN 0
  ELSE IF evs[Len(evs)].type = "agent_start" THEN Len(evs)
  ELSE lastStart(SubSeq(evs, 1, Len(evs) - 1))

\* The events the for-await of run (lines 34-39) has received from
\* agenticLoop in the current run: those after agent_start and after the
\* plan's text_complete, which run yields itself.
loopEvents ==
  LET enabled == configField([maxTurns |-> maxTurns, autoplan |-> autoplan], "autoplan")
      planned == /\ enabled = <<TRUE>>
                 /\ planning # <<>>
                 /\ generatePlan(planning[Len(planning)]) # <<>>
  IN  SubSeq(events, lastStart(events) + (IF planned THEN 2 ELSE 1), Len(events))

\* No final response.
finalResponse_none(evs) == <<>>

\* The content of the last text_complete event, <<>> when there is none.
RECURSIVE finalResponse(_)
finalResponse(evs) ==
  IF Len(evs) = 0 THEN <<>>
  ELSE IF evs[Len(evs)].type = "text_complete" THEN <<evs[Len(evs)].data>>
  ELSE finalResponse(SubSeq(evs, 1, Len(evs) - 1))

\* Agent.run after agenticLoop has returned: lines 41-42.
EndRun ==
  /\ agPc = "ending"
  /\ events' = Append(events, agentEnd(finalResponse(loopEvents)))
  /\ agPc' = "done"
  /\ UNCHANGED <<maxTurns, turn, turnCount, messages, latestUsage, totalUsage, toolCalls,
                 toolResults, usage, responses, compactions, loopVars, apVars, rgVars,
                 cmVars, clVars, fsVars, plVars, subagent>>

AgentNext ==
  \/ \E planReply \in PlanReplies : StartRun(planReply)
  \/ \E stream \in CompactionStreams : BeginTurn(stream)
  \/ \E response \in Responses : Request(response)
  \/ \E env \in {"success", "failure"} : DispatchTool(env)
  \/ FinishBatch
  \/ LimitReached
  \/ EndRun

SpecAgent == AgentInit /\ [][AgentNext]_vars

\* The largest maxTurns explored with the autoplan setting.
MaxPlanTurns == 2

\* Sessions started with and without autoplan = true in the configuration
\* file.
PlanInit == SessionInit(0..MaxPlanTurns, BOOLEAN)

SpecPlan == PlanInit /\ [][AgentNext]_vars

\* The dispatch of a subagent call, step by step.

\* The next call of the batch, when the dispatch loop is at one.
NextCall == toolCalls[Len(toolResults) + 1]

\* Lines 148-151 of the dispatch loop for a call of a subagent tool, and
\* invoke up to execute's first await: an invalid or refused call and a
\* call without goal resolve at once (execute line 54-56); otherwise the
\* nested agent is built, the deadline is set and the parent waits for
\* execute.
SubagentStart(rest) ==
  /\ agPc = "tools"
  /\ Len(toolResults) < Len(toolCalls)
  /\ subagentOf(NextCall.name) # <<>>
  /\ LET call == NextCall
         definition == subagentOf(call.name)[1]
         signature == signatureOf(TOOL_CALL, Details(<<call.name>>, <<call.arguments>>, <<>>))
         manager == ApprovalManager(apPolicy, ConfigCwd, <<>>)
         refused == subagentGate(definition, call.arguments, manager)
         goal == Prop(call.arguments, GoalField)
         noGoal == goal.t = "string" /\ goal.s = <<>>
         timeout == IF definition.timeoutSeconds = <<>> THEN 600
                    ELSE definition.timeoutSeconds[1]
         result == IF refused # <<>> THEN refused[1]
                   ELSE ToolResultError("No goal specified for sub-agent")
     IN  /\ history' = pushSignature(history, signature)
         /\ recorded' = Append(recorded, signature)
         /\ ret' = VoidReturn
         /\ IF refused # <<>> \/ noGoal
              THEN /\ events' = events \o <<toolCallStart(call.call_id, call.name),
                                            toolCallComplete(call.call_id, call.name, result)>>
                   /\ toolResults' = Append(toolResults,
                                            toolResultEntry(call, result, OutputTokensOf(call)))
                   /\ UNCHANGED <<agPc, subagent>>
              ELSE /\ events' = Append(events, toolCallStart(call.call_id, call.name))
                   /\ agPc' = "subagent"
                   /\ subagent' = SubagentCall("running", definition.name, 0, timeout,
                                               run(Agent, SubagentPrompt, rest), 0, 0, <<>>,
                                               <<>>, <<>>, "goal", subagent.resolved)
                   /\ UNCHANGED toolResults
  /\ UNCHANGED <<maxTurns, turn, turnCount, messages, latestUsage, totalUsage, toolCalls, usage,
                 responses, compactions, apVars, rgVars, cmVars, clVars, fsVars, plVars>>

\* The nested run yields its next event after some time and the loop
\* body runs on it; a break makes the for-await return the generator,
\* which ends the nested run.
SubagentEvent(elapsed) ==
  /\ agPc = "subagent"
  /\ subagent.pc = "running"
  /\ subagent.yielded < Len(subagent.run.events)
  /\ LET event == subagent.run.events[subagent.yielded + 1]
         received == [subagent EXCEPT !.now = IF subagent.now + elapsed > subagent.deadline
                                                THEN subagent.deadline + 1
                                              ELSE subagent.now + elapsed,
                                      !.yielded = subagent.yielded + 1]
         after == consumeEvent(received, event)
     IN  subagent' = IF after.pc = "ended" THEN [after EXCEPT !.run.done = TRUE] ELSE after
  /\ UNCHANGED <<maxTurns, agPc, turn, turnCount, messages, latestUsage, totalUsage, events,
                 toolCalls, toolResults, usage, responses, compactions, loopVars, apVars,
                 rgVars, cmVars, clVars, fsVars, plVars>>

\* The nested run has no further event: it returns, or throws into the
\* catch block.
SubagentRunEnds ==
  /\ agPc = "subagent"
  /\ subagent.pc = "running"
  /\ subagent.yielded = Len(subagent.run.events)
  /\ LET over == [subagent EXCEPT !.run.done = TRUE, !.pc = "ended"]
     IN  subagent' = IF subagent.run.throws THEN caught(over) ELSE over
  /\ UNCHANGED <<maxTurns, agPc, turn, turnCount, messages, latestUsage, totalUsage, events,
                 toolCalls, toolResults, usage, responses, compactions, loopVars, apVars,
                 rgVars, cmVars, clVars, fsVars, plVars>>

\* execute returns (lines 113-119), invoke returns its result and the
\* dispatch loop goes on: agent.ts lines 159-165.
SubagentReturn ==
  /\ agPc = "subagent"
  /\ subagent.pc = "ended"
  /\ LET call == NextCall
         resolved == subagentResult(subagent)
     IN  /\ events' = Append(events, toolCallComplete(call.call_id, call.name, resolved.result))
         /\ toolResults' = Append(toolResults,
                                  toolResultEntry(call, resolved.result, OutputTokensOf(call)))
         /\ subagent' = [subagent EXCEPT !.pc = "idle",
                                         !.resolved = Append(subagent.resolved, resolved)]
  /\ agPc' = "tools"
  /\ UNCHANGED <<maxTurns, turn, turnCount, messages, latestUsage, totalUsage, toolCalls, usage,
                 responses, compactions, loopVars, apVars, rgVars, cmVars, clVars, fsVars, plVars>>

\* What the model asks of a subagent, with and without a goal.
ReqReview == [name |-> subagentName(CODE_REVIEWER),
              arguments |-> OneParam(GoalField, JsStr(<<"g">>))]
ReqInvestigate == [name |-> subagentName(CODEBASE_INVESTIGATOR),
                   arguments |-> OneParam(GoalField, JsStr(<<"g">>))]
ReqReviewNothing == [name |-> subagentName(CODE_REVIEWER),
                     arguments |-> OneParam(GoalField, JsStr(<<>>))]

\* The model's responses in a session that uses subagents.
SubagentResponses ==
  {Response(Failing(0, Reply(<<>>, batch, <<NormalUsage>>), 0)) :
     batch \in {<<ReqReview>>, <<ReqInvestigate, ReqLs>>, <<ReqLs, ReqReview>>,
                <<ReqReviewNothing>>, <<ReqReview, ReqReview>>}}
  \cup {Response(Failing(0, Reply(<<"T">>, <<>>, <<NormalUsage>>), 0))}

\* The largest maxTurns explored with subagent calls.
MaxSubagentTurns == 2

SubagentInit == SessionInit(1..MaxSubagentTurns, {FALSE})

SubagentNext ==
  \/ \E planReply \in PlanReplies : StartRun(planReply)
  \/ \E stream \in CompactionStreams : BeginTurn(stream)
  \/ \E response \in SubagentResponses : Request(response)
  \/ \E env \in {"success", "failure"} : DispatchTool(env)
  \/ \E rest \in NestedRuns : SubagentStart(rest)
  \/ \E elapsed \in Elapsed : SubagentEvent(elapsed)
  \/ SubagentRunEnds
  \/ SubagentReturn
  \/ FinishBatch
  \/ LimitReached
  \/ EndRun

SpecSubagent == SubagentInit /\ [][SubagentNext]_vars

\* The model's responses in a session whose tools give long outputs: two
\* readings of the git log in one response, one reading, an answer, and a
\* request that fails on every attempt.
OutputResponses ==
  {Response(Failing(0, Reply(<<>>, batch, <<NormalUsage>>), 0)) :
     batch \in {<<ReqGitLog, ReqGitLog>>, <<ReqGitLog>>}}
  \cup {Response(Failing(0, Reply(<<"T">>, <<>>, <<NormalUsage>>), 0)),
        Response(Failing(maxRetries + 1, Reply(<<>>, <<ReqLs>>, <<NormalUsage>>), 2))}

\* The largest maxTurns explored with long outputs.
MaxOutputTurns == 2

OutputsInit == SessionInit(1..MaxOutputTurns, {FALSE})

OutputsNext ==
  \/ \E planReply \in PlanReplies : StartRun(planReply)
  \/ \E stream \in CompactionStreams : BeginTurn(stream)
  \/ \E response \in OutputResponses : Request(response)
  \/ \E env \in {"success", "failure"} : DispatchTool(env)
  \/ FinishBatch
  \/ LimitReached
  \/ EndRun

SpecOutputs == OutputsInit /\ [][OutputsNext]_vars

(***************************************************************************)
(* Properties of the agent loop                                            *)
(***************************************************************************)

\* The session is in, or has ended, the run for its first user message.
FirstRun == Len(SelectSeq(events, LAMBDA e : e.type = "agent_start")) <= 1

\* The run yielded the limit-reached error event.
LimitErrorYielded ==
  \E i \in 1..Len(events) :
    events[i] = agentError(<<"Maximum turns reached", maxTurns>>)

\* Every model response received so far completed at least one tool call.
EveryResponseCalledATool ==
  \A k \in 1..Len(responses) : responses[k].requests # <<>>

\* C1 as stated: a run makes at most maxTurns model round-trips and never
\* throws; a run in which every response contained a tool call ends after
\* exactly maxTurns turns with the limit-reached error event.
C1_AsStated ==
  FirstRun =>
    /\ Len(responses) <= maxTurns
    /\ agPc # "thrown"
    /\ agPc = "done" /\ EveryResponseCalledATool =>
         /\ Len(responses) = maxTurns
         /\ turnCount = maxTurns
         /\ LimitErrorYielded

\* C10: the step that ends a tool batch appends the batch's tool results in
\* order, then exactly one loop-breaker user message when checkForLoop
\* reported a loop (none otherwise), yields no event, and goes on to the
\* head of the loop for the next turn.
C10_LoopBreakerAdvisory ==
  [][agPc = "tools" /\ agPc' \notin {"tools", "thrown"} =>
       LET n == Len(messages)
           k == Len(toolResults)
           looped == ret' # NoLoop
       IN  /\ agPc' = "loop"
           /\ turn' = turn + 1
           /\ events' = events
           /\ Len(messages') = n + k + (IF looped THEN 1 ELSE 0)
           /\ \A i \in 1..n : messages'[i].role = messages[i].role
           /\ \A i \in 1..k :
                /\ messages'[n + i].role = "tool"
                /\ messages'[n + i].toolCallId = <<toolResults[i].tool_call_id>>
           /\ looped =>
                /\ messages'[n + k + 1].role = "user"
                /\ messages'[n + k + 1].content = createLoopBreakerPrompt(ret')]_vars

\* C10 witness: a loop was reported after a batch, the loop-breaker message
\* follows that batch's tool result, and the next turn's assistant message
\* follows the loop-breaker.
C10_Witness ==
  \E i \in 2..(Len(messages) - 1) :
    /\ messages[i - 1].role = "tool"
    /\ messages[i].role = "user"
    /\ messages[i].content.kind = "loop_breaker"
    /\ messages[i + 1].role = "assistant"

\* C15 as stated: while the run for the first user message of the
\* conversation is in progress (and once it has ended), no tool-result
\* content has been replaced.
C15_AsStated ==
  FirstRun => \A i \in 1..Len(messages) : ~messages[i].prunedAt

\* The field-wise sum of the usages of a sequence of reports, each <<>> or
\* <<usage>>.
RECURSIVE SumReported(_)
SumReported(reports) ==
  IF Len(reports) = 0 THEN ZeroUsage
  ELSE usageAfter(SumReported(Tail(reports)), Head(reports))

\* The usage reported by every model response of the turns so far: the
\* responses to the turns' requests and to the summarising requests made.
ReportedSoFar ==
  SumReported([k \in 1..Len(responses) |-> responses[k].usage]
              \o [k \in 1..Len(compactions) |->
                    IF compactions[k].stream = <<>> THEN <<>>
                    ELSE compactions[k].stream[1].usage])

\* No field of usage b is less than that field of usage a.
UsageAtLeast(b, a) ==
  /\ b.promptTokens >= a.promptTokens
  /\ b.completionTokens >= a.completionTokens
  /\ b.totalTokens >= a.totalTokens
  /\ b.cachedTokens >= a.cachedTokens

\* C16 as stated: whenever a turn is over, the cumulative usage is the
\* field-wise sum of the usage reported by the model responses of the turns
\* so far, and no step makes any field of the cumulative usage smaller.
C16_AsStated ==
  [][/\ agPc' \in {"loop", "ending", "done", "thrown"} => totalUsage' = ReportedSoFar'
     /\ UsageAtLeast(totalUsage', totalUsage)]_vars

\* The step made a ChatCompactor.compress call, and what that call was.
CompactedNow == Len(compactions') = Len(compactions) + 1
NewCompaction == compactions'[Len(compactions')]

\* The step is the head of a turn.
TurnHeadStep == agPc = "loop" /\ agPc' = "request"

\* C17: when the summarising request of a turn gives a summary and its
\* usage, the history after the turn's head is exactly three messages: a
\* user message embedding that summary, the assistant acknowledgment and the
\* user continue instruction, and none of the earlier messages.
C17_SummaryReplacesHistory ==
  [][(/\ TurnHeadStep
       /\ CompactedNow
       /\ NewCompaction.stream # <<>>
       /\ ~NewCompaction.stream[1].error
       /\ NewCompaction.stream[1].summary # <<>>
       /\ NewCompaction.stream[1].usage # <<>>)
       => /\ Len(messages') = 3
          /\ messages'[1].role = "user"
          /\ messages'[1].content.kind = "continuation"
          /\ messages'[1].content.text = NewCompaction.stream[1].summary
          /\ messages'[2].role = "assistant"
          /\ messages'[2].content = AckContent
          /\ messages'[3].role = "user"
          /\ messages'[3].content = ContinueContent
          /\ \A i \in 1..3 : messages'[i].toolCallId = <<>> /\ ~messages'[i].prunedAt]_vars

\* C17 witness: a turn whose compaction succeeded is about to make its model
\* request on the three synthetic messages.
C17_Witness ==
  /\ agPc = "request"
  /\ Len(compactions) > 0
  /\ compactions[Len(compactions)].result.summary # <<>>
  /\ Len(messages) = 3
  /\ Len(responses) > 0

\* C18: when the summarising request of a turn gives an empty result or
\* fails, the history and both usage counters are as before the turn's head,
\* no event is yielded and the turn goes on to its model request.
C18_FailedCompactionSkipped ==
  [][(/\ CompactedNow
       /\ NewCompaction.stream # <<>>
       /\ (NewCompaction.stream[1].error \/ NewCompaction.stream[1].summary = <<>>))
       => /\ messages' = messages
          /\ latestUsage' = latestUsage
          /\ totalUsage' = totalUsage
          /\ events' = events
          /\ agPc' = "request"]_vars

\* C18 witness: a turn whose summarising request failed is about to make its
\* model request on a history that still holds a tool result.
C18_Witness ==
  /\ agPc = "request"
  /\ Len(compactions) > 0
  /\ compactions[Len(compactions)].stream # <<>>
  /\ compactions[Len(compactions)].stream[1].error
  /\ \E i \in 1..Len(messages) : messages[i].role = "tool"

\* C19: the head of a turn calls compress exactly when the latest reported
\* total token usage is strictly greater than 80% of the context window, and
\* no other step of the turn calls it.
C19_CompactionTrigger ==
  [][/\ TurnHeadStep =>
          /\ CompactedNow <=> latestUsage.totalTokens * 5 > contextWindow * 4
          /\ ~CompactedNow => compactions' = compactions
     /\ ~TurnHeadStep => compactions' = compactions]_vars

\* C19 witness: a turn began with the latest usage at exactly 80% of the
\* window and compress was not called.
C19_Witness ==
  /\ agPc = "request"
  /\ latestUsage.totalTokens * 5 = contextWindow * 4
  /\ compactions = <<>>

\* The number of tool-result messages of a history.
ToolMessageCount(msgs) == Cardinality({i \in 1..Len(msgs) : msgs[i].role = "tool"})

\* C20: while a batch is handled, each step that resolves a call resolves
\* the next call in request order, yielding its started event and then its
\* completed event, which carries the result of the registry invocation made
\* for that call, and appends no message; messages are appended only once
\* every call of the batch has a result, and then the batch's k tool-result
\* messages follow the earlier messages in request order, the i-th with the
\* call id of the i-th call.
C20_SequentialDispatch ==
  [][agPc = "tools" =>
       /\ toolResults' # toolResults =>
            LET i == Len(toolResults) + 1
                c == toolCalls[i]
            IN  /\ i <= Len(toolCalls)
                /\ Len(toolResults') = i
                /\ toolResults'[i].tool_call_id = c.call_id
                /\ rgCall'.name = c.name /\ rgCall'.params = c.arguments
                /\ events' = events \o <<toolCallStart(c.call_id, c.name),
                                         toolCallComplete(c.call_id, c.name,
                                                          rgOutcome'[1].result[1])>>
                /\ messages' = messages
       /\ messages' # messages =>
            LET n == Len(messages)
                k == Len(toolCalls)
            IN  /\ Len(toolResults) = k
                /\ Len(messages') >= n + k
                /\ ToolMessageCount(messages') = ToolMessageCount(messages) + k
                /\ \A i \in 1..k :
                     /\ messages'[n + i].role = "tool"
                     /\ messages'[n + i].toolCallId = <<toolCalls[i].call_id>>]_vars

\* C20 witness: a batch of two calls has been handled: its four events are
\* the last events and its two tool-result messages are in the history.
C20_Witness ==
  /\ agPc = "loop"
  /\ Len(toolCalls) = 2
  /\ Len(toolResults) = 2
  /\ Len(events) >= 4
  /\ events[Len(events) - 3].type = "tool_call_start"
  /\ events[Len(events) - 2].type = "tool_call_complete"
  /\ events[Len(events) - 1].type = "tool_call_start"
  /\ events[Len(events)].type = "tool_call_complete"
  /\ \E i \in 1..(Len(messages) - 1) :
       /\ messages[i].toolCallId = <<toolCalls[1].call_id>>
       /\ messages[i + 1].toolCallId = <<toolCalls[2].call_id>>

\* C21: every tool message of the history answers a tool-call request of an
\* assistant message that precedes it in the history.
C21_ToolMessagesAnswerRequests ==
  \A i \in 1..Len(messages) :
    messages[i].role = "tool" =>
      \E j \in 1..(i - 1) :
        /\ messages[j].role = "assistant"
        /\ \E k \in 1..Len(messages[j].toolCalls) :
             messages[i].toolCallId = <<messages[j].toolCalls[k].call_id>>

\* C21 witness: a history with the two tool messages of one batch, after the
\* assistant message that requested them.
C21_Witness ==
  \E j \in 1..Len(messages) :
    /\ messages[j].role = "assistant"
    /\ Len(messages[j].toolCalls) = 2
    /\ Len(messages) >= j + 2
    /\ messages[j + 1].role = "tool"
    /\ messages[j + 2].role = "tool"

\* A step that dispatches the next call of the batch.
DispatchStep == agPc = "tools" /\ Len(toolResults) < Len(toolCalls)

\* A step that ends the batch: every call has its collected result.
BatchEndStep == agPc = "tools" /\ Len(toolResults) = Len(toolCalls)

\* C25: a call whose approval decision is rejected never runs the tool's
\* execute; invoke returns a failure result without throwing, the loop
\* collects it as an error for that call id and stays in the batch, and at
\* the end of the batch each collected error is a tool message for its call
\* id carrying the error content, and the run goes on to the next turn.
C25_RejectionBecomesToolMessage ==
  [][/\ (DispatchStep /\ apDecision' = REJECTED) =>
          /\ rgOutcome'[1].executed = 0
          /\ ~rgOutcome'[1].threw
          /\ ~rgOutcome'[1].result[1].success
          /\ toolResults' = Append(toolResults,
                [content |-> Content("tool_error", <<>>, 20),
                 tool_call_id |-> toolCalls[Len(toolResults) + 1].call_id,
                 is_error |-> TRUE])
          /\ agPc' = "tools"
     /\ BatchEndStep =>
          /\ agPc' = "loop"
          /\ turn' = turn + 1
          /\ \A k \in 1..Len(toolResults) :
               toolResults[k].is_error =>
                 /\ messages'[Len(messages) + k].role = "tool"
                 /\ messages'[Len(messages) + k].toolCallId = <<toolResults[k].tool_call_id>>
                 /\ messages'[Len(messages) + k].content.kind = "tool_error"]_vars

\* A rejected call's error has reached the history and the run is at the
\* head of its next turn.
C25_Witness ==
  /\ agPc = "loop"
  /\ turn >= 1
  /\ apDecision = REJECTED
  /\ rgOutcome[1].executed = 0
  /\ messages[Len(messages)].role = "tool"
  /\ messages[Len(messages)].content.kind = "tool_error"

\* C29: a dispatch handles exactly the next call of the batch and runs the
\* tool's execute at most once for it; an execution that failed is not run
\* again: its failure is collected as the error result of that call and
\* announced by one tool-call-complete event.
C29_NoToolRetry ==
  [][DispatchStep =>
       /\ rgCall'.name = toolCalls[Len(toolResults) + 1].name
       /\ rgCall'.params = toolCalls[Len(toolResults) + 1].arguments
       /\ rgOutcome'[1].executed <= 1
       /\ (Len(toolResults') = Len(toolResults) + 1 \/ agPc' = "thrown")
       /\ (rgOutcome'[1].executed = 1 /\ ~rgOutcome'[1].result[1].success) =>
            /\ Len(toolResults') = Len(toolResults) + 1
            /\ toolResults'[Len(toolResults')].is_error
            /\ toolResults'[Len(toolResults')].tool_call_id =
                 toolCalls[Len(toolResults) + 1].call_id
            /\ Len(events') = Len(events) + 2
            /\ events'[Len(events')].type = "tool_call_complete"]_vars

\* A tool executed once, failed, and its failure is the collected result.
C29_Witness ==
  /\ agPc = "tools"
  /\ rgOutcome # <<>>
  /\ rgOutcome[1].executed = 1
  /\ rgCall.env = "failure"
  /\ ~rgOutcome[1].result[1].success
  /\ toolResults # <<>>
  /\ toolResults[Len(toolResults)].is_error

\* The events of one type in a stream.
EventsOfType(evs, type) == SelectSeq(evs, LAMBDA e : e.type = type)

\* The stream of the turn's model request.
TurnStream == responses[Len(responses)].stream

\* C22: every dispatch is for a tool_call_complete event of the turn's
\* stream, taken in stream order, and is made once that stream has ended
\* with message_complete: the batch has exactly one call per
\* tool_call_complete event, whatever tool_call_start and tool_call_delta
\* events the stream carried.
C22_DispatchOnlyCompletedCalls ==
  [][DispatchStep =>
       LET completed == EventsOfType(TurnStream, TOOL_CALL_COMPLETE)
           k == Len(toolResults) + 1
       IN  /\ Len(toolCalls) = Len(completed)
           /\ rgCall'.name = completed[k].data.name
           /\ rgCall'.params = completed[k].data.arguments
           /\ TurnStream[Len(TurnStream)].type = MESSAGE_COMPLETE]_vars

\* A call was dispatched in a turn whose stream announced more tool calls
\* and argument fragments than it completed.
C22_Witness ==
  /\ agPc = "tools"
  /\ toolResults # <<>>
  /\ rgOutcome # <<>>
  /\ Len(EventsOfType(TurnStream, TOOL_CALL_START))
       > Len(EventsOfType(TurnStream, TOOL_CALL_COMPLETE))
  /\ Len(EventsOfType(TurnStream, TOOL_CALL_DELTA))
       > Len(EventsOfType(TurnStream, TOOL_CALL_COMPLETE))

\* Every attempt of a request fails.
AllAttemptsFail(attempts) ==
  \A k \in 1..(maxRetries + 1) : attempts[k].failsAfter # <<>>

\* The number of events the first n attempts yield.
RECURSIVE EventsOfAttempts(_, _)
EventsOfAttempts(attempts, n) ==
  IF n = 0 THEN 0
  ELSE EventsOfAttempts(attempts, n - 1) + Len(attemptEvents(Provider, TRUE, attempts[n]))

\* C24: a failing request is attempted again until an attempt completes or
\* maxRetries + 1 attempts have failed; the loop yields an agent error
\* event, exactly one, only when every attempt failed, and then has no tool
\* call to dispatch and leaves the loop; the run ends with its agent_end
\* event, and a user message sent afterwards starts a run on the same
\* history.
C24_RetriesThenOneError ==
  [][/\ agPc = "request" =>
          LET r == responses'[Len(responses')]
              made == attemptsMade(r.attempts, 0)
              failed == AllAttemptsFail(r.attempts)
              errors == EventsOfType(SubSeq(events', Len(events) + 1, Len(events')),
                                     "agent_error")
          IN  /\ made <= maxRetries + 1
              /\ failed => made = maxRetries + 1
              /\ Len(r.stream) = EventsOfAttempts(r.attempts, made) + (IF failed THEN 1 ELSE 0)
              /\ r.error = failed
              /\ Len(errors) = (IF failed THEN 1 ELSE 0)
              /\ failed => (toolCalls' = <<>> /\ agPc' = "ending")
     /\ (agPc = "ending" /\ responses # <<>> /\ responses[Len(responses)].error) =>
          (agPc' = "done" /\ events'[Len(events')].type = "agent_end")
     /\ agPc = "done" =>
          /\ agPc' = "loop"
          /\ turn' = 0
          /\ messages' = addUserMessage(messages, UserPrompt)]_vars

\* The first run ended on a request that failed four times; the run for
\* the next user message made its request, executed the tool call of the
\* response and ended.
C24_Witness ==
  /\ agPc = "done"
  /\ ~FirstRun
  /\ Len(responses) >= 3
  /\ responses[1].error
  /\ Len(EventsOfType(responses[1].stream, TOOL_CALL_START)) = maxRetries + 1
  /\ responses[2].requests # <<>>
  /\ ~responses[2].error
  /\ \E i \in 1..Len(messages) : messages[i].content.kind = "tool_output"
  /\ events[Len(events)].type = "agent_end"

\* The step starts a run.
StartStep == agPc \in {"idle", "done"}

\* C28 as stated: with the autoplan setting enabled, the start of every run
\* makes exactly one planning request before the first turn; a returned
\* plan is appended as an assistant message after the user message and
\* yielded as a text_complete event; no turn is consumed.
C28_AsStated ==
  [][(StartStep /\ autoplan) =>
       /\ Len(planning') = Len(planning) + 1
       /\ turn' = 0
       /\ turnCount' = turnCount
       /\ planning'[Len(planning')] # <<>> =>
            /\ messages'[Len(messages')].role = "assistant"
            /\ messages'[Len(messages')].content = planning'[Len(planning')][1]
            /\ events'[Len(events')] = textComplete(planning'[Len(planning')][1])]_vars

\* A run of a session configured with autoplan = true has ended without
\* any planning request.
C28_RunWithoutPlan ==
  /\ autoplan
  /\ agPc = "done"
  /\ planning = <<>>
  /\ Len(responses) >= 1

\* C33 as stated: when the batch of a turn is complete, every result of
\* the batch is in the history the next model request is built from, as a
\* tool message with the call's id and the result's own content.
C33_AsStated ==
  [][BatchEndStep =>
       \A i \in 1..Len(toolResults) :
         \E k \in 1..Len(messages') :
           /\ messages'[k].role = "tool"
           /\ messages'[k].toolCallId = <<toolResults[i].tool_call_id>>
           /\ messages'[k].content = toolResults[i].content]_vars

\* A tool result of the turn that has just ended holds the placeholder
\* although no model request has been made since.
C33_PrunedUnsent ==
  /\ agPc = "loop"
  /\ Len(toolResults) = 2
  /\ \E k \in 1..Len(messages) :
       /\ messages[k].role = "tool"
       /\ messages[k].toolCallId = <<toolResults[1].tool_call_id>>
       /\ messages[k].content = PrunedContent
       /\ toolResults[1].content # PrunedContent

\* C30: while SubagentTool.execute is consuming its nested run the parent
\* makes no model request, dispatches no tool and yields nothing; every
\* event the nested run yields gets exactly one deadline check, and a check
\* after the deadline ends the consumption with termination "timeout";
\* execute resolves only once the nested run has ended or the deadline was
\* detected, with exactly one ToolResult, which becomes the call's entry in
\* toolResults and reports the termination.
C30_SubagentResolvesOnce ==
  [][/\ (subagent.pc = "running" =>
           /\ responses' = responses
           /\ toolResults' = toolResults
           /\ toolCalls' = toolCalls
           /\ events' = events
           /\ messages' = messages
           /\ subagent'.resolved = subagent.resolved)
     /\ (subagent.pc = "running" /\ subagent'.yielded # subagent.yielded =>
           /\ subagent'.yielded = subagent.yielded + 1
           /\ subagent'.checks = subagent.checks + 1
           /\ (subagent'.now > subagent'.deadline =>
                 /\ subagent'.pc = "ended"
                 /\ subagent'.termination = "timeout"))
     /\ (subagent.pc = "ended" =>
           /\ subagent.run.done \/ subagent.termination = "timeout"
           /\ subagent'.yielded = subagent.yielded
           /\ subagent'.checks = subagent.checks)
     /\ (subagent'.resolved # subagent.resolved =>
           /\ subagent.pc = "ended"
           /\ Len(subagent'.resolved) = Len(subagent.resolved) + 1
           /\ subagent'.resolved[Len(subagent'.resolved)].termination = subagent.termination
           /\ Len(toolResults') = Len(toolResults) + 1
           /\ toolResults'[Len(toolResults')]
                = toolResultEntry(NextCall, subagent'.resolved[Len(subagent'.resolved)].result,
                                  OutputTokensOf(NextCall)))
     /\ (agPc = "subagent" /\ agPc' # "subagent" =>
           Len(subagent'.resolved) = Len(subagent.resolved) + 1)]_vars

\* Two subagent calls of one batch have resolved, one by a detected
\* deadline and one after its nested run ended, and the batch is complete.
C30_Witness ==
  /\ agPc = "tools"
  /\ Len(toolResults) = 2
  /\ Len(subagent.resolved) = 2
  /\ subagent.resolved[1].termination = "timeout"
  /\ subagent.resolved[2].termination = "error"
  /\ subagent.checks = 1
  /\ subagent.run.done

\* C36: in a session whose last run has ended (by a final answer, a
\* stream error or the turn limit), every run's events start with
\* agent_start and end with agent_end, each once per run; agent_end carries
\* the content of the run's last text_complete event (nothing when there
\* is none); and the tool events come in pairs, each tool_call_start
\* followed by the tool_call_complete of the same call before any other
\* tool event and before the run's agent_end.
C36_RunEventOrder ==
  agPc = "done" =>
    LET n == Len(events)
        ToolEvents == {"tool_call_start", "tool_call_complete"}
        Brackets == {"agent_start", "agent_end"}
    IN  /\ n >= 2
        /\ events[1].type = "agent_start"
        /\ events[n].type = "agent_end"
        /\ \A i \in 1..(n - 1) :
             events[i].type = "agent_end" <=> events[i + 1].type = "agent_start"
        /\ \A e \in 1..n :
             events[e].type = "agent_end" =>
               /\ \A i \in 1..(e - 1) :
                    (/\ events[i].type = "text_complete"
                     /\ \A j \in (i + 1)..(e - 1) :
                          events[j].type \notin {"text_complete", "agent_start"})
                      => events[e].data = <<events[i].data>>
               /\ events[e].data # <<>> =>
                    \E i \in 1..(e - 1) :
                      /\ events[i].type = "text_complete"
                      /\ \A j \in (i + 1)..(e - 1) : events[j].type # "agent_start"
        /\ \A i \in 1..n :
             events[i].type = "tool_call_start" =>
               \E j \in (i + 1)..n :
                 /\ events[j].type = "tool_call_complete"
                 /\ events[j].data[1] = events[i].data[1]
                 /\ events[j].data[2] = events[i].data[2]
                 /\ \A k \in (i + 1)..(j - 1) : events[k].type \notin ToolEvents \cup Brackets
        /\ \A j \in 1..n :
             events[j].type = "tool_call_complete" =>
               \E i \in 1..(j - 1) :
                 /\ events[i].type = "tool_call_start"
                 /\ events[i].data[1] = events[j].data[1]
                 /\ \A k \in (i + 1)..(j - 1) : events[k].type \notin ToolEvents \cup Brackets

\* A run has ended at the turn limit after a response with text and tool
\* calls: its agent_end follows the limit's agent_error and carries the
\* text.
C36_Witness ==
  /\ agPc = "done"
  /\ Len(events) >= 6
  /\ events[Len(events)].type = "agent_end"
  /\ events[Len(events)].data # <<>>
  /\ events[Len(events) - 1].type = "agent_error"
  /\ \E i \in 1..Len(events) : events[i].type = "tool_call_complete"
  /\ \E i \in 1..Len(events) : events[i].type = "text_complete"

\* C37 as stated: the text a turn stores in its assistant message and
\* yields as text_complete is the text of one single attempt of the model
\* request: text forwarded by an attempt that failed and was retried is not
\* part of it.
C37_AsStated ==
  [][(Len(responses') = Len(responses) + 1 /\ responses'[Len(responses')].text # <<>>) =>
       LET response == responses'[Len(responses')]
       IN  \E k \in 1..attemptsMade(response.attempts, 0) :
             /\ events'[Len(events')] = textComplete(response.attempts[k].reply.text)
             /\ \E m \in 1..Len(messages') :
                  /\ m > Len(messages)
                  /\ messages'[m].role = "assistant"
                  /\ messages'[m].content = ModelText(response.attempts[k].reply.text)]_vars

\* The last response was stored with a text longer than the reply's text:
\* the fragments of the failed attempts precede the final attempt's.
C37_StaleTextKept ==
  /\ responses # <<>>
  /\ LET response == responses[Len(responses)]
     IN  /\ attemptsMade(response.attempts, 0) = maxRetries + 1
         /\ ~response.error
         /\ \A k \in 1..(maxRetries + 1) : response.attempts[k].reply.text = <<"T">>
         /\ response.text = <<"T", "T", "T", "T">>
         /\ \E i \in 1..Len(events) : events[i] = textComplete(response.text)

\* C35 as stated: a nested subagent run, like a top-level run, is started
\* on a session whose initialize() has completed, so the run of a subagent
\* called with a non-empty goal does not fail before its first turn: it
\* goes on after agent_start to a model request.
C35_AsStated ==
  agPc = "subagent" =>
    /\ ~subagent.run.throws
    /\ Len(subagent.run.events) > 1

\* A subagent called with a goal has ended on the TypeError its run threw
\* after agent_start, before any model request.
C35_FailedBeforeFirstTurn ==
  /\ agPc = "subagent"
  /\ subagent.pc = "ended"
  /\ subagent.yielded = 1
  /\ subagent.run.events[1].type = "agent_start"
  /\ subagent.termination = "error"
  /\ subagent.error = <<"TypeError">>

(***************************************************************************)
(* The file tools: EditTool (src/src/tools/builtin/editFile.ts) and        *)
(* MoveFileTool (src/unnamed/part_008), executed directly on a small file  *)
(* system                                                                  *)
(***************************************************************************)

\* String.prototype.indexOf from a position (1-based; 0 when there is none).
indexOf(s, pat, from) ==
  LET hits == {i \in from..(Len(s) - Len(pat) + 1) : SubSeq(s, i, i + Len(pat) - 1) = pat}
  IN  IF hits = {} THEN 0 ELSE CHOOSE i \in hits : \A j \in hits : i <= j

\* s.split(pat).length - 1 for a non-empty pat: the matches found from the
\* left, each search resuming behind the previous match.
RECURSIVE occurrenceCount(_, _, _)
occurrenceCount(s, pat, from) ==
  IF indexOf(s, pat, from) = 0 THEN 0
  ELSE 1 + occurrenceCount(s, pat, indexOf(s, pat, from) + Len(pat))

\* GetSubstitution of ECMAScript for a string pattern (no captures): in
\* the replacement, $$ stands for $, $& for the match, $` for the text
\* before it and $' for the text behind it; everything else is literal.
RECURSIVE GetSubstitution(_, _, _, _)
GetSubstitution(matched, str, position, replacement) ==
  IF Len(replacement) = 0 THEN <<>>
  ELSE IF Len(replacement) >= 2 /\ replacement[1] = "$" /\ replacement[2] \in {"$", "&", "`", "'"}
    THEN (CASE replacement[2] = "$" -> <<"$">>
            [] replacement[2] = "&" -> matched
            [] replacement[2] = "`" -> SubSeq(str, 1, position - 1)
            [] replacement[2] = "'" -> SubSeq(str, position + Len(matched), Len(str)))
         \o GetSubstitution(matched, str, position, SubSeq(replacement, 3, Len(replacement)))
  ELSE <<replacement[1]>> \o GetSubstitution(matched, str, position, Tail(replacement))

\* String.prototype.replace with a string pattern: the first match only.
replace(s, pat, replacement) ==
  LET position == indexOf(s, pat, 1)
  IN  IF position = 0 THEN s
      ELSE SubSeq(s, 1, position - 1) \o GetSubstitution(pat, s, position, replacement)
           \o SubSeq(s, position + Len(pat), Len(s))

\* String.prototype.replaceAll with a non-empty string pattern.
RECURSIVE replaceAllFrom(_, _, _, _)
replaceAllFrom(s, pat, replacement, from) ==
  LET position == indexOf(s, pat, from)
  IN  IF position = 0 THEN SubSeq(s, from, Len(s))
      ELSE SubSeq(s, from, position - 1) \o GetSubstitution(pat, s, position, replacement)
           \o replaceAllFrom(s, pat, replacement, position + Len(pat))

replaceAll(s, pat, replacement) == replaceAllFrom(s, pat, replacement, 1)

\* What a path holds: a regular file with its text, or a directory.
File(content) == [kind |-> "file", content |-> content]
Directory == [kind |-> "dir", content |-> <<>>]

\* path.dirname of an absolute, normalised path.
dirname(path) ==
  LET slashes == {i \in 1..Len(path) : path[i] = "/"}
      last == CHOOSE i \in slashes : \A j \in slashes : j <= i
  IN  IF last = 1 THEN <<"/">> ELSE SubSeq(path, 1, last - 1)

\* The paths above the working directory and the directory itself exist
\* and are directories; fs holds what lies beneath.
IsAncestor(cwd, path) == path = <<"/">> \/ path = cwd \/ StartsWith(cwd, path \o <<"/">>)

\* fs.existsSync.
existsSync(fs, cwd, path) == IsAncestor(cwd, path) \/ path \in DOMAIN fs

IsDirectory(fs, cwd, path) ==
  IsAncestor(cwd, path) \/ (path \in DOMAIN fs /\ fs[path].kind = "dir")

\* The paths beneath a directory.
Beneath(fs, dir) == {p \in DOMAIN fs : StartsWith(p, dir \o <<"/">>)}

\* fs with path holding node.
WithNode(fs, path, node) ==
  [p \in DOMAIN fs \cup {path} |-> IF p = path THEN node ELSE fs[p]]

\* fs without the paths.
Without(fs, paths) == [p \in DOMAIN fs \ paths |-> fs[p]]

\* The outcome of a file-system call: whether it threw, and the file
\* system after it.
FsOutcome(threw, fs) == [files |-> fs, threw |-> threw]

\* fs.mkdirSync(dir, {recursive: true}): creates the missing directories
\* of the chain; throws when a path of the chain is a regular file.
RECURSIVE mkdirSync(_, _, _)
mkdirSync(fs, cwd, dir) ==
  IF IsDirectory(fs, cwd, dir) THEN FsOutcome(FALSE, fs)
  ELSE IF dir \in DOMAIN fs THEN FsOutcome(TRUE, fs)
  ELSE LET above == mkdirSync(fs, cwd, dirname(dir))
       IN  IF above.threw THEN above
           ELSE FsOutcome(FALSE, WithNode(above.files, dir, Directory))

\* ensureParentDirectory of the path utilities.
ensureParentDirectory(fs, cwd, target) == mkdirSync(fs, cwd, dirname(target))

\* fs.writeFileSync: throws on a directory.
writeFileSync(fs, cwd, target, content) ==
  IF IsDirectory(fs, cwd, target) \/ ~IsDirectory(fs, cwd, dirname(target))
    THEN FsOutcome(TRUE, fs)
  ELSE FsOutcome(FALSE, WithNode(fs, target, File(content)))

\* fs.renameSync of an existing source (rename(2)): the same path is left
\* alone; a file replaces a file, a directory replaces an empty directory;
\* a file onto a directory, a directory onto a file, onto a directory that
\* is not empty or into itself, and a destination without parent directory
\* are errors.  A directory moves with what lies beneath it.
renameSync(fs, cwd, source, destination) ==
  LET moved == [p \in (DOMAIN fs \ ({source} \cup Beneath(fs, source)))
                       \cup {destination}
                       \cup {destination \o SubSeq(q, Len(source) + 1, Len(q)) :
                               q \in Beneath(fs, source)} |->
                  IF p = destination THEN fs[source]
                  ELSE IF StartsWith(p, destination \o <<"/">>)
                    THEN fs[source \o SubSeq(p, Len(destination) + 1, Len(p))]
                  ELSE fs[p]]
  IN  IF source = destination THEN FsOutcome(FALSE, fs)
      ELSE IF IsAncestor(cwd, source) \/ IsAncestor(cwd, destination) THEN FsOutcome(TRUE, fs)
      ELSE IF ~IsDirectory(fs, cwd, dirname(destination)) THEN FsOutcome(TRUE, fs)
      ELSE IF fs[source].kind = "file"
        THEN IF IsDirectory(fs, cwd, destination) THEN FsOutcome(TRUE, fs)
             ELSE FsOutcome(FALSE, moved)
      ELSE IF StartsWith(destination, source \o <<"/">>) THEN FsOutcome(TRUE, fs)
      ELSE IF destination \in DOMAIN fs
              /\ (fs[destination].kind = "file" \/ Beneath(fs, destination) # {})
        THEN FsOutcome(TRUE, fs)
      ELSE FsOutcome(FALSE, moved)

\* What execute did: its ToolResult (<<>> when it threw) and the file
\* system it left.
Executed(result, fs) == [files |-> fs, result |-> result]

\* The parameters of an edit call; old_string may be absent.
EditParams(path, old_string, new_string, replace_all) ==
  [path |-> path, old_string |-> old_string, new_string |-> new_string,
   replace_all |-> replace_all]

\* EditTool.execute, lines 70-145.
EditTool_execute(fs, cwd, params) ==
  LET target == resolvePath(cwd, params.path)
      noOld == params.old_string \in {<<>>, << <<>> >>}
  IN  IF ~existsSync(fs, cwd, target)
        THEN IF ~noOld THEN Executed(<<ToolResultError("File does not exist")>>, fs)
             ELSE LET made == ensureParentDirectory(fs, cwd, target)
                      written == writeFileSync(made.files, cwd, target, params.new_string)
                  IN  IF made.threw THEN Executed(<<>>, made.files)
                      ELSE IF written.threw THEN Executed(<<>>, written.files)
                      ELSE Executed(<<ToolResultSuccess>>, written.files)
      ELSE IF IsDirectory(fs, cwd, target) THEN Executed(<<>>, fs)
      ELSE LET oldContent == fs[target].content
           IN  IF noOld THEN Executed(<<ToolResultError("old_string is empty but file exists")>>, fs)
               ELSE LET old == params.old_string[1]
                        count == occurrenceCount(oldContent, old, 1)
                        newContent == IF params.replace_all
                                        THEN replaceAll(oldContent, old, params.new_string)
                                      ELSE replace(oldContent, old, params.new_string)
                    IN  IF count = 0 THEN Executed(<<ToolResultError("old_string not found")>>, fs)
                        ELSE IF count > 1 /\ ~params.replace_all
                          THEN Executed(<<ToolResultError("old_string found several times")>>, fs)
                        ELSE IF newContent = oldContent
                          THEN Executed(<<ToolResultError("No change made")>>, fs)
                        ELSE Executed(<<ToolResultSuccess>>,
                                      WithNode(fs, target, File(newContent)))

\* The parameters of a move call.
MoveParams(source, destination, overwrite) ==
  [source |-> source, destination |-> destination, overwrite |-> overwrite]

\* A move that replaces an existing destination without being told to.
MoveFileTool_execute_overwrites(fs, cwd, params) ==
  LET source == resolvePath(cwd, params.source)
      destination == resolvePath(cwd, params.destination)
      renamed == renameSync(fs, cwd, source, destination)
  IN  IF ~existsSync(fs, cwd, source) THEN Executed(<<ToolResultError("Source not found")>>, fs)
      ELSE IF renamed.threw THEN Executed(<<ToolResultError("Failed to move")>>, fs)
      ELSE Executed(<<ToolResultSuccess>>, renamed.files)

\* MoveFileTool.execute, lines 47-72.
MoveFileTool_execute(fs, cwd, params) ==
  LET source == resolvePath(cwd, params.source)
      destination == resolvePath(cwd, params.destination)
  IN  IF ~existsSync(fs, cwd, source) THEN Executed(<<ToolResultError("Source not found")>>, fs)
      ELSE IF existsSync(fs, cwd, destination) /\ ~params.overwrite
        THEN Executed(<<ToolResultError("Destination exists")>>, fs)
      ELSE LET made == ensureParentDirectory(fs, cwd, destination)
               renamed == renameSync(made.files, cwd, source, destination)
           IN  IF made.threw THEN Executed(<<ToolResultError("Failed to move")>>, made.files)
               ELSE IF renamed.threw
                 THEN Executed(<<ToolResultError("Failed to move")>>, renamed.files)
               ELSE Executed(<<ToolResultSuccess>>, renamed.files)

(***************************************************************************)
(* The file tools applied to every call of a bounded family                *)
(***************************************************************************)

\* The names the calls use, relative to the working directory.
NameA == <<"a">>
NameB == <<"b">>
NameD == <<"d">>
NameDC == <<"d","/","c">>
NameEF == <<"e","/","f">>
FileNames == {NameA, NameB, NameD, NameDC, NameEF}

\* The texts the file a may hold at the start.
FileContents ==
  {<<>>, <<"x">>, <<"x","x">>, <<"x","y","x">>, <<"x","x","x">>, <<"x","y">>}

\* The file systems at the start: a is absent or a file, b is absent or a
\* file, d is absent, a file, an empty directory or a directory holding c.
FileSystems ==
  LET asFs(entries) == [p \in {e[1] : e \in entries} |->
                          (CHOOSE e \in entries : e[1] = p)[2]]
      at(name) == resolvePath(ConfigCwd, name)
      forA == {{}} \cup {{<<at(NameA), File(c)>>} : c \in FileContents}
      forB == {{}, {<<at(NameB), File(<<"y">>)>>}}
      forD == {{}, {<<at(NameD), File(<<"z">>)>>}, {<<at(NameD), Directory>>},
               {<<at(NameD), Directory>>, <<at(NameDC), File(<<"z">>)>>}}
  IN  {asFs(a \cup b \cup d) : a \in forA, b \in forB, d \in forD}

OldStrings == {<<>>, << <<>> >>, << <<"x">> >>, << <<"x","x">> >>, << <<"y">> >>, << <<"z">> >>}
NewStrings == {<<>>, <<"x">>, <<"y">>, <<"w">>, <<"$","$">>, <<"$","&">>, <<"x","$","'">>,
               <<"$","1">>}

EditCalls ==
  {EditParams(name, old, new, all) :
     name \in {NameA, NameD, NameEF}, old \in OldStrings, new \in NewStrings, all \in BOOLEAN}

MoveCalls ==
  {MoveParams(source, destination, overwrite) :
     source \in FileNames \ {NameEF}, destination \in FileNames, overwrite \in BOOLEAN}

\* A record of one direct call.
FileOp(tool, params, before, result) ==
  [params |-> params, tool |-> tool, result |-> result, before |-> before]

FilesInit ==
  /\ files \in FileSystems
  /\ fsOp = <<>>
  /\ LoopIdle
  /\ ApprovalIdle
  /\ RegistryIdle
  /\ AgentIdle
  /\ ClientIdle

\* One call of EditTool.execute on the file system.
EditFile(params) ==
  /\ fsOp = <<>>
  /\ \E done \in {EditTool_execute(files, ConfigCwd, params)} :
       /\ files' = done.files
       /\ fsOp' = <<FileOp("edit", params, files, done.result)>>
  /\ UNCHANGED <<loopVars, apVars, rgVars, agVars, clVars>>

\* One call of MoveFileTool.execute on the file system.
MoveFile(params) ==
  /\ fsOp = <<>>
  /\ \E done \in {MoveFileTool_execute(files, ConfigCwd, params)} :
       /\ files' = done.files
       /\ fsOp' = <<FileOp("move_file", params, files, done.result)>>
  /\ UNCHANGED <<loopVars, apVars, rgVars, agVars, clVars>>

FilesNext ==
  \/ \E params \in EditCalls : EditFile(params)
  \/ \E params \in MoveCalls : MoveFile(params)

SpecFiles == FilesInit /\ [][FilesNext]_vars

(***************************************************************************)
(* Properties of the file tools                                            *)
(***************************************************************************)

\* The positions at which pat occurs in s.
Occurrences(s, pat) ==
  {i \in 1..(Len(s) - Len(pat) + 1) : SubSeq(s, i, i + Len(pat) - 1) = pat}

\* An edit call was made on a path that held a regular file.
EditedFile ==
  /\ fsOp # <<>>
  /\ fsOp[1].tool = "edit"
  /\ resolvePath(ConfigCwd, fsOp[1].params.path) \in DOMAIN fsOp[1].before
  /\ fsOp[1].before[resolvePath(ConfigCwd, fsOp[1].params.path)].kind = "file"

\* C31 as stated: an edit of an existing file that holds old_string exactly
\* once succeeds and leaves the file as the text before the occurrence, then
\* new_string, then the text behind it, with every other path untouched; an
\* edit whose old_string is absent or empty, does not occur, or occurs more
\* than once without replace_all, returns an error and leaves the file
\* system as it was.
C31_AsStated ==
  EditedFile =>
    LET op == fsOp[1]
        target == resolvePath(ConfigCwd, op.params.path)
        text == op.before[target].content
        noOld == op.params.old_string \in {<<>>, << <<>> >>}
        old == op.params.old_string[1]
    IN  /\ (~noOld /\ Cardinality(Occurrences(text, old)) = 1 =>
              \E i \in Occurrences(text, old) :
                /\ op.result = <<ToolResultSuccess>>
                /\ files = WithNode(op.before, target,
                                    File(SubSeq(text, 1, i - 1) \o op.params.new_string
                                         \o SubSeq(text, i + Len(old), Len(text)))))
        /\ (noOld \/ Occurrences(text, old) = {}
              \/ (Cardinality(Occurrences(text, old)) > 1 /\ ~op.params.replace_all) =>
              /\ op.result # <<>>
              /\ ~op.result[1].success
              /\ files = op.before)

\* A move call was made.
MovedFile == fsOp # <<>> /\ fsOp[1].tool = "move_file"

\* What a path holds together with everything beneath it.
Tree(fs, path) ==
  [node |-> fs[path],
   beneath |-> {<<SubSeq(q, Len(path) + 1, Len(q)), fs[q]>> : q \in Beneath(fs, path)}]

RenameRefused(fs, source, destination) ==
  \/ \E above \in DOMAIN fs : /\ StartsWith(destination, above \o <<"/">>)
                               /\ fs[above].kind = "file"
  \/ StartsWith(destination, source \o <<"/">>)
  \/ /\ destination \in DOMAIN fs
     /\ \/ fs[source].kind = "file" /\ fs[destination].kind = "dir"
        \/ fs[source].kind = "dir" /\ fs[destination].kind = "file"
        \/ fs[source].kind = "dir" /\ Beneath(fs, destination) # {}

ClientReplies == {Reply(<<"T">>, <<ReqLs>>, <<NormalUsage>>), Reply(<<>>, <<>>, <<>>)}

\* How an attempt may go: it completes, or the transport fails before the
\* first event or after two events.
AttemptOutcomes ==
  {Attempt(reply, failsAfter) : reply \in ClientReplies, failsAfter \in {<<>>, <<0>>, <<2>>}}

\* One chatCompletion call: the configured provider, the stream argument,
\* and how each of the attempts it may make goes.
ClientRequest(provider, stream, attempts) ==
  [stream |-> stream, provider |-> provider, attempts |-> attempts]

ClientRequests ==
  {ClientRequest(provider, stream, attempts) :
     provider \in {"groq", "gemini"}, stream \in BOOLEAN,
     attempts \in [1..(maxRetries + 1) -> AttemptOutcomes]}

\* A client of a validated configuration, about to be asked any request of
\* the family.
ClientInit ==
  /\ clRequest \in ClientRequests
  /\ clStream = <<>>
  /\ LoopIdle
  /\ ApprovalIdle
  /\ RegistryIdle
  /\ AgentIdle
  /\ FilesIdle

\* One whole chatCompletion call, consumed to its end.
ChatCompletion ==
  /\ clStream = <<>>
  /\ clStream' = <<chatCompletion(clRequest.provider, clRequest.stream, clRequest.attempts)>>
  /\ UNCHANGED <<clRequest, loopVars, apVars, rgVars, agVars, fsVars>>

ClientNext == ChatCompletion

SpecClient == ClientInit /\ [][ClientNext]_vars

\* A terminal event of a stream.
IsTerminal(event) == event.type \in {MESSAGE_COMPLETE, ERROR}

\* C23: the event sequence of a chatCompletion call is finite, ends with a
\* terminal event (message_complete or error) and holds no other terminal
\* event, however many attempts failed before the call returned.
C23_OneTerminalEventLast ==
  clStream # <<>> =>
    LET stream == clStream[1]
    IN  /\ Len(stream) >= 1
        /\ Len(stream) <= (maxRetries + 1) * 5 + 1
        /\ IsTerminal(stream[Len(stream)])
        /\ \A i \in 1..(Len(stream) - 1) : ~IsTerminal(stream[i])

\* A call returned after three failed attempts that had each yielded
\* events, with the completed response of the fourth attempt.
C23_Witness ==
  /\ clStream # <<>>
  /\ \A k \in 1..maxRetries : clRequest.attempts[k].failsAfter = <<2>>
  /\ clRequest.attempts[maxRetries + 1].failsAfter = <<>>
  /\ clRequest.stream
  /\ clStream[1][Len(clStream[1])].type = MESSAGE_COMPLETE
  /\ Len(clStream[1]) > 6

(***************************************************************************)
(* The ContextManager driven directly: any bounded sequence of appends,    *)
(* prunings and summary replacements                                       *)
(***************************************************************************)

\* The longest history explored.
MaxMessages == 5

\* The token counts of the tool outputs appended: around both thresholds.
ToolOutputTokens == {0, 19999, 20000, 40000}
ToolOutput(tokens) ==
  IF tokens = 0 THEN EmptyContent ELSE Content("tool_output", <<>>, tokens)

UserContent == Content("user", <<>>, 10)
AssistantContent == Content("model", <<"T">>, 1)
PriorSummary == Content("summary", <<>>, 50)

\* The other agent variables while the ContextManager is driven directly.
ctxFrame == <<agPc, maxTurns, turn, turnCount, latestUsage, totalUsage, events, toolCalls,
              toolResults, usage, responses, compactions, autoplan, planning, subagent,
              clRequest, clStream, files, fsOp>>

\* A ContextManager as constructed.
ContextInit ==
  /\ AgentIdle
  /\ FilesIdle
  /\ ClientIdle
  /\ LoopIdle
  /\ ApprovalIdle
  /\ RegistryIdle

CmAddUserMessage ==
  /\ cmResumed = "none"
  /\ Len(messages) < MaxMessages
  /\ messages' = addUserMessage(messages, UserContent)
  /\ cmOps' = <<cmOps[2], "addUserMessage">>
  /\ UNCHANGED <<cmRet, cmResumed, ctxFrame, loopVars, apVars, rgVars>>

CmAddAssistantMessage ==
  /\ cmResumed = "none"
  /\ Len(messages) < MaxMessages
  /\ messages' = addAssistantMessage(messages, <<AssistantContent>>, <<>>)
  /\ cmOps' = <<cmOps[2], "addAssistantMessage">>
  /\ UNCHANGED <<cmRet, cmResumed, ctxFrame, loopVars, apVars, rgVars>>

CmAddToolResult(tokens) ==
  /\ cmResumed = "none"
  /\ Len(messages) < MaxMessages
  /\ messages' = addToolResult(messages, <<"call", Len(messages)>>, ToolOutput(tokens))
  /\ cmOps' = <<cmOps[2], "addToolResult">>
  /\ UNCHANGED <<cmRet, cmResumed, ctxFrame, loopVars, apVars, rgVars>>

CmPruneToolOutputs ==
  /\ cmResumed = "none"
  /\ messages' = pruneToolOutputs(messages)
  /\ cmRet' = pruneToolOutputsReturn(messages)
  /\ cmOps' = <<cmOps[2], "pruneToolOutputs">>
  /\ UNCHANGED <<cmResumed, ctxFrame, loopVars, apVars, rgVars>>

CmReplaceWithSummary ==
  /\ cmResumed = "none"
  /\ messages' = replaceWithSummary(PriorSummary)
  /\ cmOps' = <<cmOps[2], "replaceWithSummary">>
  /\ UNCHANGED <<cmRet, cmResumed, ctxFrame, loopVars, apVars, rgVars>>

\* The /resume command on a session with this history (main.ts, lines
\* 252-285): the snapshot is what /save wrote, getMessages() of the history;
\* its messages are replayed into a new session, which replaces the current
\* one when the replay has ended.  The saved file holds the payloads as JSON
\* text, which JSON.parse gives back as they were.  A session is explored
\* up to its /resume.
CmResume(encodeThrows) ==
  /\ cmResumed = "none"
  /\ \E replayed \in {replay(getMessages(messages), <<>>, encodeThrows)} :
       IF replayed.threw
         THEN /\ cmResumed' = "thrown"
              /\ UNCHANGED messages
         ELSE /\ cmResumed' = "restored"
              /\ messages' = replayed.messages
  /\ cmOps' = <<cmOps[2], "resume">>
  /\ UNCHANGED <<cmRet, ctxFrame, loopVars, apVars, rgVars>>

ContextNext ==
  \/ CmAddUserMessage
  \/ CmAddAssistantMessage
  \/ \E tokens \in ToolOutputTokens : CmAddToolResult(tokens)
  \/ CmPruneToolOutputs
  \/ CmReplaceWithSummary
  \/ \E encodeThrows \in BOOLEAN : CmResume(encodeThrows)

SpecContext == ContextInit /\ [][ContextNext]_vars

(***************************************************************************)
(* Properties of pruning                                                   *)
(***************************************************************************)

\* The step is a pruneToolOutputs call.
PruneStep == cmOps'[2] = "pruneToolOutputs" /\ cmOps' = <<cmOps[2], "pruneToolOutputs">>

\* Some message of the history has been pruned.
SomePruned == \E i \in 1..Len(messages) : messages[i].prunedAt

\* C11: a pruneToolOutputs call that directly follows another one, with no
\* message appended in between, leaves every message as it was (content,
\* token count, pruned mark) and returns 0.
C11_IdempotentPruning ==
  [][PruneStep /\ cmOps[2] = "pruneToolOutputs" => messages' = messages /\ cmRet' = 0]_vars

\* C11 witness: two pruneToolOutputs calls in a row on a history in which
\* the first of them had pruned something.
C11_Witness ==
  /\ cmOps = <<"pruneToolOutputs", "pruneToolOutputs">>
  /\ SomePruned
  /\ cmRet = 0

\* C12: a pruneToolOutputs call keeps the number and the order of the
\* messages and every message's role, tool-call id and tool calls; a message
\* it changes is a tool result whose content becomes the placeholder, whose
\* token count becomes the placeholder's and which is marked pruned; user
\* and assistant messages are unchanged.
C12_PruningFrame ==
  [][PruneStep =>
       /\ Len(messages') = Len(messages)
       /\ \A i \in 1..Len(messages) :
            /\ messages'[i].role = messages[i].role
            /\ messages'[i].toolCallId = messages[i].toolCallId
            /\ messages'[i].toolCalls = messages[i].toolCalls
            /\ messages[i].role # "tool" => messages'[i] = messages[i]
            /\ messages'[i] # messages[i] =>
                 /\ messages'[i].content = PrunedContent
                 /\ messages'[i].tokenCount = PrunedContent.tokens
                 /\ messages'[i].prunedAt]_vars

\* C12 witness: a pruning that replaced the content of one tool result and
\* left a newer tool result as it was.
C12_Witness ==
  /\ cmOps[2] = "pruneToolOutputs"
  /\ cmRet > 0
  /\ \E i, j \in 1..Len(messages) :
       /\ i < j
       /\ messages[i].role = "tool" /\ messages[i].prunedAt
       /\ messages[j].role = "tool" /\ ~messages[j].prunedAt

\* C40: in every history the pruned tool results are the oldest ones (a
\* pruned tool result has no unpruned tool result before it), and a
\* pruneToolOutputs call leaves every message that is already pruned as it
\* is: it marks, and counts, only messages that were not pruned before.
C40_PrunedAreOldest ==
  /\ [](\A i, j \in 1..Len(messages) :
          (/\ i < j
           /\ messages[i].role = "tool"
           /\ messages[j].role = "tool"
           /\ messages[j].prunedAt)
            => messages[i].prunedAt)
  /\ [][PruneStep =>
          /\ \A i \in 1..Len(messages) : messages[i].prunedAt => messages'[i] = messages[i]
          /\ cmRet' = Cardinality({i \in 1..Len(messages) :
                                     ~messages[i].prunedAt /\ messages'[i].prunedAt})]_vars

\* C40 witness: a pruneToolOutputs call has pruned one more tool result
\* and stopped at the one pruned by an earlier call; a newer tool result is
\* left as it was.
C40_Witness ==
  /\ cmOps[2] = "pruneToolOutputs"
  /\ cmRet = 1
  /\ \E i, j, k \in 1..Len(messages) :
       /\ i < j /\ j < k
       /\ messages[i].role = "tool" /\ messages[i].prunedAt
       /\ messages[j].role = "tool" /\ messages[j].prunedAt
       /\ messages[k].role = "tool" /\ ~messages[k].prunedAt

\* The token total of the tool results newer than message i.
RECURSIVE NewerToolTokens(_, _)
NewerToolTokens(msgs, i) ==
  IF i >= Len(msgs) THEN 0
  ELSE (IF msgs[i + 1].role = "tool" THEN msgs[i + 1].tokenCount ELSE 0)
       + NewerToolTokens(msgs, i + 1)

\* Message i is in the protected recent window: walking the tool results
\* from the newest, the running total had not exceeded the protect threshold
\* before it was reached (it is the crossing message or newer).
InProtectedWindow(msgs, i) ==
  msgs[i].role = "tool" /\ NewerToolTokens(msgs, i) <= PRUNE_PROTECT_TOKENS

\* C13 as stated: a pruneToolOutputs call never changes a tool result of the
\* protected recent window, the crossing message included.
C13_AsStated ==
  [][PruneStep =>
       \A i \in 1..Len(messages) :
         InProtectedWindow(messages, i) => messages'[i] = messages[i]]_vars

\* The token total of the candidates the scan collects.
CandidateTokens(msgs) == pruneScan(msgs, Len(msgs), 0, 0, {}).prunedTokens

\* C14 as stated: a pruneToolOutputs call rewrites messages only when its
\* candidates total more than 20,000 tokens; when they total 20,000 or fewer
\* it changes nothing and returns 0.
C14_AsStated ==
  [][PruneStep =>
       /\ messages' # messages => CandidateTokens(messages) > PRUNE_MINIMUM_TOKENS
       /\ CandidateTokens(messages) <= PRUNE_MINIMUM_TOKENS =>
            messages' = messages /\ cmRet' = 0]_vars

(***************************************************************************)
(* Properties of the snapshot round trip                                   *)
(***************************************************************************)

\* The step is a /resume command.
ResumeStep == cmOps' = <<cmOps[2], "resume">>

\* The user, assistant and tool messages of a getMessages output.
Conversation(payloads) == SelectSeq(payloads, LAMBDA msg : msg.role # "system")

\* C27 as stated: for every history, replaying the non-system messages of
\* its getMessages() snapshot through the add* methods of a fresh
\* ContextManager completes, and getMessages() of the result has the same
\* user, assistant and tool messages in the same order (roles, contents,
\* tool calls, tool-call ids).
C27_AsStated ==
  [][ResumeStep =>
       /\ cmResumed' = "restored"
       /\ Conversation(getMessages(messages')) = Conversation(getMessages(messages))]_vars

\* A /resume command threw while replaying the snapshot of a history that
\* holds a tool result with empty content.
C27_ReplayThrew ==
  /\ cmOps[2] = "resume"
  /\ cmResumed = "thrown"
  /\ \E i \in 1..Len(messages) :
       messages[i].role = "tool" /\ messages[i].content = EmptyContent

====
